---- MODULE Spec2Model ----
(***************************************************************************)
(* Golden-data validation engine of scripts/validate-inference.py:         *)
(* InferenceValidator.validate and the strategies it dispatches to.        *)
(*                                                                         *)
(* JSON values are tagged tuples, tag first, so that values of different   *)
(* Python types are always distinguishable:                                *)
(*   <<"null">>  <<"num", n>>  <<"str", s>>  <<"list", seq>>  <<"dict", f>>*)
(* Numbers are integers; a tensor score s stands for the float s / Scale.  *)
(* A Python dict is a function from its keys; list(d.keys()) is modelled   *)
(* by the key set DOMAIN f (insertion order is not kept).                  *)
(***************************************************************************)
EXTENDS Integers, Sequences, FiniteSets, TLC

VARIABLES golden_data, pc, model_name, output, test_name, results, raised,
          discovered, args_json, stdout_summary, exit_status,
          history_file, history_op

vars == <<golden_data, pc, model_name, output, test_name, results, raised,
          discovered, args_json, stdout_summary, exit_status,
          history_file, history_op>>

\* the validator, the response under validation and the results of the call
validate_vars == <<golden_data, pc, model_name, output, test_name, results, raised,
                   discovered>>

\* the history file of historical-metrics.py and the last command run on it
hist_vars == <<history_file, history_op>>

\* what main of validate-inference.py leaves behind: the --json flag it ran
\* with, the closing line it printed and the exit status of the process
cli_vars == <<args_json, stdout_summary, exit_status>>

----------------------------------------------------------------------------
(* JSON values                                                             *)

Null == <<"null">>

Num(n) == <<"num", n>>

Str(s) == <<"str", s>>

List(s) == <<"list", s>>

Dict(f) == <<"dict", f>>

EmptyMap == [k \in {} |-> Null]

IsNull(x) == x[1] = "null"

IsNum(x) == x[1] = "num"

IsStr(x) == x[1] = "str"

IsList(x) == x[1] = "list"

IsDict(x) == x[1] = "dict"

\* d.get(k, default) on a Python dict given as a function
Get(d, k, default) == IF k \in DOMAIN d THEN d[k] ELSE default

\* bool(x) of a JSON list: non-empty
NonEmptyList(x) == IsList(x) /\ Len(x[2]) > 0

Min(a, b) == IF a <= b THEN a ELSE b

----------------------------------------------------------------------------
(* ValidationResult and raised exceptions                                  *)

\* ValidationResult.__init__: details defaults to {}
ValidationResult(tn, passed, message, details) ==
    [test_name |-> tn, passed |-> passed, message |-> message, details |-> details]

\* an exception of the given kind leaving the evaluated code
Raise(kind) == [exception |-> kind]

IsRaise(r) == "exception" \in DOMAIN r

\* result.details[k] = v
SetDetail(r, k, v) == [r EXCEPT !.details = (k :> v) @@ r.details]

----------------------------------------------------------------------------
(* Tensor shape inspector                                                  *)

RECURSIVE get_tensor_shape(_)
get_tensor_shape(data) ==
    IF ~IsList(data) THEN <<>>
    ELSE IF Len(data[2]) = 0 THEN <<0>>
    ELSE <<Len(data[2])>> \o get_tensor_shape(data[2][1])

\* get_tensor_shape of discover-output-names.py
RECURSIVE discover_get_tensor_shape(_)
discover_get_tensor_shape(data) ==
    IF ~NonEmptyList(data) THEN <<>>
    ELSE <<Len(data[2])>> \o discover_get_tensor_shape(data[2][1])

\* discover_model_outputs of discover-output-names.py from the response of
\* run_inference on: the status and the shape found for each output name
discover_model_outputs(response) ==
    IF "error" \in DOMAIN response THEN
        [status |-> "error", outputs |-> EmptyMap]
    ELSE IF Get(response, "status", Null) # Str("success") THEN
        [status |-> "inference_failed", outputs |-> EmptyMap]
    ELSE IF "outputs" \notin DOMAIN response THEN
        [status |-> "no_outputs", outputs |-> EmptyMap]
    ELSE IF ~IsDict(response["outputs"]) THEN Raise("AttributeError")
    ELSE [status |-> "success",
          outputs |-> [name \in DOMAIN response["outputs"][2] |->
                         [shape |-> discover_get_tensor_shape(response["outputs"][2][name])]]]

----------------------------------------------------------------------------
(* Python list indexing and sorting                                        *)

\* seq[i] for a Python index i (negative counts from the end) is defined
InRange(seq, i) == -Len(seq) <= i /\ i < Len(seq)

\* seq[i] for a Python index i with InRange(seq, i)
At(seq, i) == IF i >= 0 THEN seq[i + 1] ELSE seq[Len(seq) + i + 1]

\* first position at which two sequences differ, 0 when one is a prefix of
\* the other
FirstDiff(a, b) ==
    LET common == 1..Min(Len(a), Len(b))
        diff == {k \in common : a[k] # b[k]}
    IN  IF diff = {} THEN 0 ELSE CHOOSE k \in diff : \A j \in diff : k <= j

\* Python's a < b on JSON values: "lt", "ge", or "err" for the TypeError of
\* an unordered pair (None with anything, a number with a list, ...)
RECURSIVE PyLt(_, _)
PyLt(a, b) ==
    IF IsNum(a) /\ IsNum(b) THEN (IF a[2] < b[2] THEN "lt" ELSE "ge")
    ELSE IF IsList(a) /\ IsList(b) THEN
        LET k == FirstDiff(a[2], b[2])
        IN  IF k = 0 THEN (IF Len(a[2]) < Len(b[2]) THEN "lt" ELSE "ge")
            ELSE PyLt(a[2][k], b[2][k])
    ELSE "err"

\* list.sort raises TypeError: some pair of the keys is unordered
SortRaises(items) ==
    \E i, j \in 1..Len(items) : i < j /\ PyLt(items[i], items[j]) = "err"

\* C15 mutant: an unstable descending sort, equal scores end up in
\* descending index order (as after sorting ascending and reversing)
RECURSIVE InsertPos_ties_reversed(_, _, _, _)
InsertPos_ties_reversed(sorted, items, idx, p) ==
    IF p > Len(sorted) THEN p
    ELSE IF PyLt(items[idx + 1], items[sorted[p] + 1]) # "lt" THEN p
    ELSE InsertPos_ties_reversed(sorted, items, idx, p + 1)

\* position (1-based) at which index idx enters the descending order held
\* in sorted: before the first entry whose score is smaller
RECURSIVE InsertPos(_, _, _, _)
InsertPos(sorted, items, idx, p) ==
    IF p > Len(sorted) THEN p
    ELSE IF PyLt(items[sorted[p] + 1], items[idx + 1]) = "lt" THEN p
    ELSE InsertPos(sorted, items, idx, p + 1)

\* list(enumerate(items)) sorted by key x[1], reverse=True (stable): the
\* 0-based indices in descending score order, ties in ascending index order
RECURSIVE SortedIndices(_, _)
SortedIndices(items, n) ==
    IF n = 0 THEN <<>>
    ELSE LET prev == SortedIndices(items, n - 1)
             p == InsertPos(prev, items, n - 1, 1)
         IN  SubSeq(prev, 1, p - 1) \o <<n - 1>> \o SubSeq(prev, p, Len(prev))

\* seq[:k]
Prefix(seq, k) ==
    IF k >= 0 THEN SubSeq(seq, 1, Min(k, Len(seq)))
    ELSE SubSeq(seq, 1, IF Len(seq) + k > 0 THEN Len(seq) + k ELSE 0)

\* [idx for idx, _ in indexed[:top_k]] after the sort, or the TypeError
TopKIndices(items, top_k) ==
    IF SortRaises(items) THEN Raise("TypeError")
    ELSE [idx |-> Prefix(SortedIndices(items, Len(items)), top_k)]

\* [x for x in wanted if x in have]
Filter(wanted, have) ==
    SelectSeq(wanted, LAMBDA x : \E i \in 1..Len(have) : have[i] = x)

\* sum(x * x for x in items), defined when every item is a number
SumSq(items) ==
    LET RECURSIVE acc(_)
        acc(n) == IF n = 0 THEN 0 ELSE acc(n - 1) + items[n][2] * items[n][2]
    IN  acc(Len(items))

\* sum(a * b for a, b in zip(xs, ys)) for equally long number lists
Dot(xs, ys) ==
    LET RECURSIVE acc(_)
        acc(n) == IF n = 0 THEN 0 ELSE acc(n - 1) + xs[n][2] * ys[n][2]
    IN  acc(Len(xs))

\* generated_text[:500] kept in the details of generation_contains
TextShown == 500

\* defaults of expected_l2_norm (1.0), tolerance (0.01) and
\* min_cosine_similarity (0.7), in units of 1 / Scale
default_l2_norm == 100

default_tolerance == 1

default_min_similarity == 70

\* units per 1.0
Scale == default_l2_norm

\* top_k_scores[:5] kept in the details of top_k_class_match
ScoresShown == 5

AllNum(items) == \A i \in 1..Len(items) : IsNum(items[i])

----------------------------------------------------------------------------
(* Response-shape classifier helpers; output is the dict's key map         *)

core_keys == {"status", "model_id", "inference_time_us", "output_size"}

is_core_response(out) == core_keys \cap DOMAIN out # {}

has_tensor_outputs(out) == "outputs" \in DOMAIN out /\ IsDict(out["outputs"])

extract_tensor_data(out) == IF has_tensor_outputs(out) THEN out["outputs"][2] ELSE out

----------------------------------------------------------------------------
(* Format specs of the f-strings                                           *)

\* f"{x:,}": defined for numbers; ValueError for a str, TypeError otherwise
CommaFormatError(x) ==
    IF IsNum(x) THEN "none" ELSE IF IsStr(x) THEN "ValueError" ELSE "TypeError"

----------------------------------------------------------------------------
(* Metadata-only validation                                                *)

validate_core_response(tn, expected, out) ==
    LET status == Get(out, "status", Null)
        output_size == Get(out, "output_size", Num(0))
        inference_time == Get(out, "inference_time_us", Num(0))
        model_id == Get(out, "model_id", Str("unknown"))
    IN  IF status # Str("success") THEN
            ValidationResult(tn, FALSE, <<"Core inference failed: status={}", status>>,
                [status |-> status, output |-> Dict(out)])
        ELSE IF ~IsNum(output_size) THEN Raise("TypeError")
        ELSE IF output_size[2] <= 0 THEN
            ValidationResult(tn, FALSE,
                <<"Core inference returned no output (output_size={})", output_size>>,
                [status |-> status, output_size |-> output_size,
                 inference_time_us |-> inference_time])
        ELSE IF CommaFormatError(inference_time) # "none" THEN
            Raise(CommaFormatError(inference_time))
        ELSE
            ValidationResult(tn, TRUE,
                <<"Core inference successful: {} bytes in {}us", output_size, inference_time>>,
                [status |-> status, model_id |-> model_id, output_size |-> output_size,
                 inference_time_us |-> inference_time,
                 expected_shape |-> Get(expected, "expected_shape", <<>>),
                 validation_note |->
                   "Validated Core metadata response (tensor data not returned by Core API)"])

----------------------------------------------------------------------------
(* Strategies; out is the key map of the dict handed to the strategy       *)

validate_status_success(tn, expected, out) ==
    LET status == Get(out, "status", Null)
        output_size == Get(out, "output_size", Num(0))
        min_output_size == Get(expected, "min_output_size", 0)
    IN  IF status # Str("success") THEN
            ValidationResult(tn, FALSE, <<"Expected status 'success', got '{}'", status>>,
                [status |-> status, message |-> Get(out, "message", Str(""))])
        ELSE IF min_output_size > 0 /\ ~IsNum(output_size) THEN Raise("TypeError")
        ELSE IF min_output_size > 0 /\ output_size[2] < min_output_size THEN
            ValidationResult(tn, FALSE,
                <<"output_size {} < min_output_size {}", output_size, min_output_size>>,
                [status |-> status, output_size |-> output_size,
                 min_output_size |-> min_output_size,
                 model_id |-> Get(out, "model_id", Str("unknown"))])
        ELSE IF CommaFormatError(output_size) # "none" THEN
            Raise(CommaFormatError(output_size))
        ELSE
            ValidationResult(tn, TRUE, <<"Status is success, output_size={}", output_size>>,
                [status |-> status, output_size |-> output_size,
                 min_output_size |-> min_output_size,
                 model_id |-> Get(out, "model_id", Str("unknown")),
                 inference_time_us |-> Get(out, "inference_time_us", Num(0))])

\* C13 mutant: the shapes compared over the length of expected_shape only
output_shape_result_by_prefix(tn, expected, actual_shape) ==
    IF /\ "expected_shape" \in DOMAIN expected
       /\ Len(actual_shape) >= Len(expected.expected_shape)
       /\ SubSeq(actual_shape, 1, Len(expected.expected_shape)) = expected.expected_shape
    THEN
        ValidationResult(tn, TRUE, <<"Shape matches: {}", actual_shape>>,
            [actual_shape |-> actual_shape, expected_shape |-> expected.expected_shape])
    ELSE
        ValidationResult(tn, FALSE,
            <<"Shape mismatch: expected {}, got {}",
              Get(expected, "expected_shape", Null), actual_shape>>,
            [actual_shape |-> actual_shape,
             expected_shape |-> Get(expected, "expected_shape", Null)])

\* the result of _validate_output_shape once actual_shape is known
output_shape_result(tn, expected, actual_shape) ==
    IF "expected_shape" \in DOMAIN expected /\ actual_shape = expected.expected_shape THEN
        ValidationResult(tn, TRUE, <<"Shape matches: {}", actual_shape>>,
            [actual_shape |-> actual_shape, expected_shape |-> expected.expected_shape])
    ELSE
        ValidationResult(tn, FALSE,
            <<"Shape mismatch: expected {}, got {}",
              Get(expected, "expected_shape", Null), actual_shape>>,
            [actual_shape |-> actual_shape,
             expected_shape |-> Get(expected, "expected_shape", Null)])

validate_output_shape(tn, expected, out) ==
    LET output_name == Get(expected, "output_name", "logits")
    IN  IF output_name \notin DOMAIN out THEN
            ValidationResult(tn, FALSE, <<"Output '{}' not found in response", output_name>>,
                [available_outputs |-> DOMAIN out])
        ELSE output_shape_result(tn, expected, get_tensor_shape(out[output_name]))

\* C23 mutant: one matching output is enough to pass
validate_multi_output_shape_any(tn, expected, out) ==
    LET outputs_config == Get(expected, "outputs", EmptyMap)
        ok(name) == /\ name \in DOMAIN out
                    /\ get_tensor_shape(out[name]) = outputs_config[name].expected_shape
        all_passed == \E name \in DOMAIN outputs_config : ok(name)
        details == [name \in DOMAIN outputs_config |->
                      IF name \notin DOMAIN out THEN [error |-> "not found"]
                      ELSE [expected |-> outputs_config[name].expected_shape,
                            actual |-> get_tensor_shape(out[name]),
                            passed |-> ok(name)]]
    IN  ValidationResult(tn, all_passed,
            IF all_passed THEN <<"All output shapes match">>
            ELSE <<"Some output shapes mismatch">>,
            details)

validate_multi_output_shape(tn, expected, out) ==
    LET outputs_config == Get(expected, "outputs", EmptyMap)
        ok(name) == /\ name \in DOMAIN out
                    /\ get_tensor_shape(out[name]) = outputs_config[name].expected_shape
        all_passed == \A name \in DOMAIN outputs_config : ok(name)
        details == [name \in DOMAIN outputs_config |->
                      IF name \notin DOMAIN out THEN [error |-> "not found"]
                      ELSE [expected |-> outputs_config[name].expected_shape,
                            actual |-> get_tensor_shape(out[name]),
                            passed |-> ok(name)]]
    IN  ValidationResult(tn, all_passed,
            IF all_passed THEN <<"All output shapes match">>
            ELSE <<"Some output shapes mismatch">>,
            details)

\* the result of _validate_embeddings_compatible once both shapes are known
compatible_result(tn, text_shape, image_shape) ==
    ValidationResult(tn, text_shape = image_shape,
        IF text_shape = image_shape THEN <<"Embeddings are compatible">>
        ELSE <<"Embeddings are not compatible">>,
        [text_shape |-> text_shape, image_shape |-> image_shape])

validate_embeddings_compatible(tn, expected, out) ==
    LET text_output == Get(expected, "text_output", "text_embeds")
        image_output == Get(expected, "image_output", "image_embeds")
    IN  IF text_output \notin DOMAIN out \/ image_output \notin DOMAIN out THEN
            ValidationResult(tn, FALSE,
                <<"Missing outputs: {}",
                  (IF text_output \notin DOMAIN out THEN <<text_output>> ELSE <<>>)
                  \o (IF image_output \notin DOMAIN out THEN <<image_output>> ELSE <<>>)>>,
                EmptyMap)
        ELSE compatible_result(tn, get_tensor_shape(out[text_output]),
                               get_tensor_shape(out[image_output]))

\* the result of _validate_output_exists for a present output of data_len
output_exists_result(tn, output_name, min_elements, data_len) ==
    IF min_elements > 0 /\ data_len < min_elements THEN
        ValidationResult(tn, FALSE,
            <<"Output '{}' has {} elements, expected >= {}", output_name, data_len, min_elements>>,
            [output_name |-> output_name, length |-> data_len, min_expected |-> min_elements])
    ELSE
        ValidationResult(tn, TRUE,
            <<"Output '{}' found with {} elements", output_name, data_len>>,
            [output_name |-> output_name, length |-> data_len, min_expected |-> min_elements])

\* C24 mutant: a value that is no sequence counts no element
data_len_of_scalar_zero(data) == IF IsList(data) THEN Len(data[2]) ELSE 0

\* len(data) if isinstance(data, list) else 1
data_len_of(data) == IF IsList(data) THEN Len(data[2]) ELSE 1

\* _validate_output_exists after tensor_data is chosen
output_exists_in(tn, expected, tensor_data) ==
    LET output_name == Get(expected, "output_name", "output")
    IN  IF output_name \in DOMAIN tensor_data THEN
            output_exists_result(tn, output_name, Get(expected, "min_elements", 0),
                                 data_len_of(tensor_data[output_name]))
        ELSE
            ValidationResult(tn, FALSE, <<"Output '{}' not found in response", output_name>>,
                [available_keys |-> DOMAIN tensor_data])

validate_output_exists(tn, expected, out) ==
    output_exists_in(tn, expected, extract_tensor_data(out))

----------------------------------------------------------------------------
(* Top-K strategies.  A navigation step yields [val |-> x] or a Raise.     *)

\* logits[0] if logits is a non-empty list of lists, else logits
first_row(raw) == IF NonEmptyList(raw) /\ IsList(raw[2][1]) THEN raw[2][1] ELSE raw

\* logits[0][mask_position] if len(logits[0]) > mask_position else logits[0][-1]
\* / logits[0][-1] if isinstance(logits[0][-1], list) else logits[0]
navigate_top_k_contains(logits, expected) ==
    IF NonEmptyList(logits) /\ IsList(logits[2][1]) THEN
        LET row == logits[2][1][2]
        IN  IF "mask_position" \in DOMAIN expected THEN
                LET mask_position == expected.mask_position
                IN  IF Len(row) > mask_position THEN
                        (IF InRange(row, mask_position) THEN [val |-> At(row, mask_position)]
                         ELSE Raise("IndexError"))
                    ELSE IF Len(row) = 0 THEN Raise("IndexError")
                    ELSE [val |-> At(row, -1)]
            ELSE IF Len(row) = 0 THEN Raise("IndexError")
            ELSE IF IsList(At(row, -1)) THEN [val |-> At(row, -1)]
            ELSE [val |-> logits[2][1]]
    ELSE [val |-> logits]

\* "Get top-K indices" of _validate_top_k_contains and _validate_top_k_logits
\* for a navigation outcome: the indices of a list, [] for anything else
top_k_or_empty(nav, top_k) ==
    IF IsRaise(nav) THEN nav
    ELSE IF IsList(nav.val) THEN TopKIndices(nav.val[2], top_k)
    ELSE [idx |-> <<>>]

\* C17 mutant: the verdict looks at the configured indices instead of the
\* ones found (passed = len(expected_indices) > 0)
top_k_found_result_by_expected(tn, top_k, expected_indices, top_k_indices, found) ==
    ValidationResult(tn, Len(expected_indices) > 0,
        <<"Found {}/{} expected classes in top-{}", Len(found), Len(expected_indices), top_k>>,
        [top_k_indices |-> top_k_indices, expected_indices |-> expected_indices,
         found_indices |-> found])

\* the result of _validate_top_k_contains with expected indices configured
top_k_found_result(tn, top_k, expected_indices, top_k_indices, found) ==
    ValidationResult(tn, Len(found) > 0,
        <<"Found {}/{} expected classes in top-{}", Len(found), Len(expected_indices), top_k>>,
        [top_k_indices |-> top_k_indices, expected_indices |-> expected_indices,
         found_indices |-> found])

\* the tail of _validate_top_k_contains from "Check if expected indices"
top_k_contains_result(tn, top_k, expected_indices, top) ==
    IF IsRaise(top) THEN top
    ELSE IF expected_indices # <<>> THEN
        top_k_found_result(tn, top_k, expected_indices, top.idx,
                           Filter(expected_indices, top.idx))
    ELSE
        ValidationResult(tn, TRUE,
            <<"Got top-{} predictions (label validation requires tokenizer)", top_k>>,
            [top_k_indices |-> top.idx])

validate_top_k_contains(tn, expected, out) ==
    LET output_name == Get(expected, "output_name", "logits")
        top_k == Get(expected, "top_k", 5)
    IN  IF output_name \notin DOMAIN out THEN
            ValidationResult(tn, FALSE, <<"Output '{}' not found", output_name>>, EmptyMap)
        ELSE
            top_k_contains_result(tn, top_k, Get(expected, "expected_class_indices", <<>>),
                top_k_or_empty(navigate_top_k_contains(out[output_name], expected), top_k))

\* C19 mutant: a negative position reads the first sequence position
navigate_top_k_logits_first(logits, position) ==
    IF NonEmptyList(logits) /\ IsList(logits[2][1]) THEN
        LET row == logits[2][1][2]
            i == IF position >= 0 THEN position ELSE 0
        IN  IF InRange(row, i) THEN [val |-> At(row, i)] ELSE Raise("IndexError")
    ELSE [val |-> logits]

\* logits[0][position] if position >= 0 else logits[0][-1]
navigate_top_k_logits(logits, position) ==
    IF NonEmptyList(logits) /\ IsList(logits[2][1]) THEN
        LET row == logits[2][1][2]
            i == IF position >= 0 THEN position ELSE -1
        IN  IF InRange(row, i) THEN [val |-> At(row, i)] ELSE Raise("IndexError")
    ELSE [val |-> logits]

\* the result of _validate_top_k_logits once found is known
top_k_logits_found(tn, top_k, expected_tokens, top_k_indices, found) ==
    ValidationResult(tn, Len(found) > 0,
        IF Len(found) > 0 THEN <<"Found expected token(s) in top-{}", top_k>>
        ELSE <<"Did not find expected token(s) in top-{}", top_k>>,
        [top_k_indices |-> top_k_indices, expected_tokens |-> expected_tokens,
         found_tokens |-> found])

\* the tail of _validate_top_k_logits from "Check expected tokens"
top_k_logits_result(tn, top_k, expected_tokens, top) ==
    IF IsRaise(top) THEN top
    ELSE top_k_logits_found(tn, top_k, expected_tokens, top.idx,
                            Filter(expected_tokens, top.idx))

validate_top_k_logits(tn, expected, out) ==
    LET output_name == Get(expected, "output_name", "logits")
        top_k == Get(expected, "top_k", 10)
    IN  IF output_name \notin DOMAIN out THEN
            ValidationResult(tn, FALSE, <<"Output '{}' not found", output_name>>, EmptyMap)
        ELSE
            top_k_logits_result(tn, top_k, Get(expected, "expected_tokens", <<>>),
                top_k_or_empty(
                    navigate_top_k_logits(out[output_name], Get(expected, "position", -1)),
                    top_k))

\* the scores of a sequence of 0-based indices
ScoresAt(items, idx) == [i \in 1..Len(idx) |-> items[idx[i] + 1]]

\* top_k_indices.index(cls) + 1
RankOf(idx, cls) == CHOOSE r \in 1..Len(idx) : idx[r] = cls /\ \A q \in 1..(r - 1) : idx[q] # cls

\* the result of _validate_top_k_class_match once the first acceptable class
\* found in top-K is known (found_classes lists them in acceptable order)
class_match_found(tn, expected, top_k, top_k_indices, top_k_scores, found_classes) ==
    LET expected_class == expected.expected_class_index
        passed == Len(found_classes) > 0
    IN  ValidationResult(tn, passed,
            IF ~passed THEN <<"Class {} not in top-{}", expected_class, top_k>>
            ELSE IF found_classes[1] = expected_class THEN
                <<"Class {} found at rank {}", expected_class,
                  RankOf(top_k_indices, found_classes[1])>>
            ELSE <<"Class {} not found, but alternative {} at rank {}",
                   expected_class, found_classes[1], RankOf(top_k_indices, found_classes[1])>>,
            [expected_class |-> expected_class,
             alternative_classes |-> Get(expected, "alternative_classes", <<>>),
             found_class |-> IF passed THEN Num(found_classes[1]) ELSE Null,
             rank |-> IF passed THEN Num(RankOf(top_k_indices, found_classes[1])) ELSE Null,
             top_k_indices |-> top_k_indices,
             top_k_scores |-> Prefix(top_k_scores, ScoresShown)])

\* C16 mutant: only expected_class_index is looked for in the top-K, the
\* alternative classes are ignored
class_match_result_expected_only(tn, expected, top_k, items, top) ==
    IF IsRaise(top) THEN top
    ELSE class_match_found(tn, expected, top_k, top.idx, ScoresAt(items, top.idx),
            Filter(<<expected.expected_class_index>>, top.idx))

\* the tail of _validate_top_k_class_match from "Check if expected class"
class_match_result(tn, expected, top_k, items, top) ==
    IF IsRaise(top) THEN top
    ELSE class_match_found(tn, expected, top_k, top.idx, ScoresAt(items, top.idx),
            Filter(<<expected.expected_class_index>>
                   \o Get(expected, "alternative_classes", <<>>), top.idx))

\* _validate_top_k_class_match after the batch dimension is taken off
class_match_logits(tn, expected, top_k, logits) ==
    IF ~IsList(logits) THEN
        ValidationResult(tn, FALSE, <<"Output is not a list of logits">>,
            [output_type |-> logits[1]])
    ELSE class_match_result(tn, expected, top_k, logits[2], TopKIndices(logits[2], top_k))

validate_top_k_class_match(tn, expected, out) ==
    LET output_name == Get(expected, "output_name", "output")
    IN  IF "expected_class_index" \notin DOMAIN expected THEN
            ValidationResult(tn, FALSE, <<"No expected_class_index specified in test config">>,
                EmptyMap)
        ELSE IF output_name \notin DOMAIN out THEN
            ValidationResult(tn, FALSE, <<"Output '{}' not found in response", output_name>>,
                [available_keys |-> DOMAIN out])
        ELSE class_match_logits(tn, expected, Get(expected, "top_k", 5),
                                first_row(out[output_name]))

\* C18 mutant: the [batch, seq, vocab] branch reads sequence position 0
\* whatever mask_position is
navigate_mlm_at_first(logits, mask_position) ==
    LET rows == logits[2]
    IN  IF IsList(rows[1]) THEN
            IF Len(rows[1][2]) = 0 THEN Raise("IndexError")
            ELSE IF IsList(rows[1][2][1]) THEN [val |-> At(rows[1][2], 0)]
            ELSE IF Len(rows) > mask_position THEN
                (IF InRange(rows, mask_position) THEN [val |-> At(rows, mask_position)]
                 ELSE Raise("IndexError"))
            ELSE [val |-> At(rows, -1)]
        ELSE [val |-> logits]

\* mask_logits of _validate_mlm_prediction, for a non-empty list logits
navigate_mlm(logits, mask_position) ==
    LET rows == logits[2]
    IN  IF IsList(rows[1]) THEN
            IF Len(rows[1][2]) = 0 THEN Raise("IndexError")
            ELSE IF IsList(rows[1][2][1]) THEN
                (IF InRange(rows[1][2], mask_position) THEN [val |-> At(rows[1][2], mask_position)]
                 ELSE Raise("IndexError"))
            ELSE IF Len(rows) > mask_position THEN
                (IF InRange(rows, mask_position) THEN [val |-> At(rows, mask_position)]
                 ELSE Raise("IndexError"))
            ELSE [val |-> At(rows, -1)]
        ELSE [val |-> logits]

\* the result of _validate_mlm_prediction once found_tokens is known
mlm_found(tn, expected, top_k, top_k_tokens, found_tokens) ==
    ValidationResult(tn, Len(found_tokens) > 0,
        <<"Found {}/{} expected tokens in top-{}", Len(found_tokens),
          Len(Get(expected, "expected_token_ids", <<>>)), top_k>>,
        [mask_position |-> expected.mask_position,
         expected_tokens |-> Get(expected, "expected_token_ids", <<>>),
         found_tokens |-> found_tokens,
         top_k_tokens |-> top_k_tokens])

\* the tail of _validate_mlm_prediction from "Check if expected tokens"
mlm_result(tn, expected, top_k, top) ==
    IF IsRaise(top) THEN top
    ELSE mlm_found(tn, expected, top_k, top.idx,
                   Filter(Get(expected, "expected_token_ids", <<>>), top.idx))

\* "Get top-K token indices" of _validate_mlm_prediction: enumerate() of a
\* number or None is a TypeError
mlm_top_k(nav, top_k) ==
    IF IsRaise(nav) THEN nav
    ELSE IF ~IsList(nav.val) THEN Raise("TypeError")
    ELSE TopKIndices(nav.val[2], top_k)

validate_mlm_prediction(tn, expected, out) ==
    LET output_name == Get(expected, "output_name", "output")
        top_k == Get(expected, "top_k", 10)
    IN  IF "mask_position" \notin DOMAIN expected THEN
            ValidationResult(tn, FALSE, <<"No mask_position specified in test config">>, EmptyMap)
        ELSE IF output_name \notin DOMAIN out THEN
            ValidationResult(tn, FALSE, <<"Output '{}' not found in response", output_name>>,
                EmptyMap)
        ELSE IF ~NonEmptyList(out[output_name]) THEN
            ValidationResult(tn, FALSE,
                <<"Output is not properly structured for MLM validation">>, EmptyMap)
        ELSE
            mlm_result(tn, expected, top_k,
                mlm_top_k(navigate_mlm(out[output_name], expected.mask_position), top_k))

----------------------------------------------------------------------------
(* Text strategy.  A text is a str whose payload is its character sequence  *)
(* (status and model_id strings are atoms; the two are never compared).     *)

Text(chars) == <<"str", chars>>

Upper == <<"A", "B", "C", "D", "E", "F", "G", "H", "I", "J", "K", "L", "M",
           "N", "O", "P", "Q", "R", "S", "T", "U", "V", "W", "X", "Y", "Z">>

LowerOf == <<"a", "b", "c", "d", "e", "f", "g", "h", "i", "j", "k", "l", "m",
             "n", "o", "p", "q", "r", "s", "t", "u", "v", "w", "x", "y", "z">>

\* str.lower() on a character sequence
lower(chars) ==
    [i \in 1..Len(chars) |->
        IF \E k \in 1..Len(Upper) : Upper[k] = chars[i]
        THEN LowerOf[CHOOSE k \in 1..Len(Upper) : Upper[k] = chars[i]]
        ELSE chars[i]]

\* needle in haystack, on character sequences
IsSubstring(needle, haystack) ==
    \E i \in 0..(Len(haystack) - Len(needle)) :
        SubSeq(haystack, i + 1, i + Len(needle)) = needle

DigitChars == <<"0", "1", "2", "3", "4", "5", "6", "7", "8", "9">>

RECURSIVE Digits(_)
Digits(n) == IF n < 10 THEN <<DigitChars[n + 1]>>
             ELSE Digits(n \div 10) \o <<DigitChars[(n % 10) + 1]>>

\* str(x) as a character sequence, for the values a text field is drawn
\* from: a text, an integer or None (the repr of containers is not modelled)
py_str(x) ==
    IF IsStr(x) THEN x[2]
    ELSE IF IsNum(x) THEN (IF x[2] < 0 THEN <<"-">> \o Digits(-x[2]) ELSE Digits(x[2]))
    ELSE <<"N", "o", "n", "e">>

text_keys == <<"generated_text", "text", "output", "response", "content">>

\* the result of _validate_generation_contains once found_keywords is known
generation_found(tn, expected_keywords, generated_text, found_keywords) ==
    ValidationResult(tn, Len(found_keywords) > 0,
        <<"Found {}/{} keywords in generated text",
          Len(found_keywords), Len(expected_keywords)>>,
        [generated_text |-> Prefix(generated_text, TextShown),
         expected_keywords |-> expected_keywords,
         found_keywords |-> found_keywords])

\* the keyword loop: the keywords that occur in the text, in configured order
keywords_in(expected_keywords, case_insensitive, generated_text) ==
    LET hit(keyword) ==
            IF case_insensitive THEN IsSubstring(lower(keyword), lower(generated_text))
            ELSE IsSubstring(keyword, generated_text)
    IN  SelectSeq(expected_keywords, hit)

\* _validate_generation_contains after str(generated_text)
generation_check(tn, expected_keywords, case_insensitive, generated_text) ==
    generation_found(tn, expected_keywords, generated_text,
                     keywords_in(expected_keywords, case_insensitive, generated_text))

\* generated_text[0] if generated_text else "" for a list, else the value
first_text(value) ==
    IF IsList(value) THEN (IF Len(value[2]) > 0 THEN value[2][1] ELSE Text(<<>>))
    ELSE value

\* C20 mutant: the last text key present is read
find_text_last_present(out) ==
    LET present == {k \in 1..Len(text_keys) : text_keys[k] \in DOMAIN out}
    IN  IF present = {} THEN Null
        ELSE out[text_keys[CHOOSE k \in present : \A j \in present : k >= j]]

\* the value of the first key of text_keys present in the output, or None
find_text(out) ==
    LET present == {k \in 1..Len(text_keys) : text_keys[k] \in DOMAIN out}
    IN  IF present = {} THEN Null
        ELSE out[text_keys[CHOOSE k \in present : \A j \in present : k <= j]]

validate_generation_contains(tn, expected, out) ==
    IF IsNull(find_text(out)) THEN
        ValidationResult(tn, FALSE, <<"No generated text found in output">>,
            [available_keys |-> DOMAIN out])
    ELSE generation_check(tn, Get(expected, "expected_keywords", <<>>),
                          Get(expected, "case_insensitive", TRUE),
                          py_str(first_text(find_text(out))))

----------------------------------------------------------------------------
(* Embedding strategies.  Scores, norms, tolerances and thresholds are     *)
(* integers in units of 1 / Scale; comparisons of square roots and         *)
(* quotients are made exactly, on the squares (float rounding is not       *)
(* modelled).                                                              *)

\* C21 mutant: only the upper end of the tolerance band is checked
NormWithin_upper_only(sumsq, expected_norm, tolerance) ==
    LET hi == expected_norm + tolerance
    IN  hi >= 0 /\ sumsq <= hi * hi

\* abs(sqrt(sumsq) - expected_norm) <= tolerance
NormWithin(sumsq, expected_norm, tolerance) ==
    LET hi == expected_norm + tolerance
        lo == expected_norm - tolerance
    IN  /\ hi >= 0 /\ sumsq <= hi * hi
        /\ (lo <= 0 \/ sumsq >= lo * lo)

\* the result of _validate_embedding_normalized once the norm is known
normalized_result(tn, sumsq, expected_norm, tolerance) ==
    ValidationResult(tn, NormWithin(sumsq, expected_norm, tolerance),
        <<"L2 norm: sqrt({}) (expected: {} +- {})", sumsq, expected_norm, tolerance>>,
        [l2_norm_squared |-> sumsq, expected_norm |-> expected_norm, tolerance |-> tolerance])

\* _validate_embedding_normalized after "Flatten if needed"; x * x of a
\* non-number is a TypeError
normalized_check(tn, expected, embedding) ==
    IF IsList(embedding) /\ ~AllNum(embedding[2]) THEN Raise("TypeError")
    ELSE normalized_result(tn, IF IsList(embedding) THEN SumSq(embedding[2]) ELSE 0,
                           Get(expected, "expected_l2_norm", default_l2_norm),
                           Get(expected, "tolerance", default_tolerance))

validate_embedding_normalized(tn, expected, out) ==
    LET output_name == Get(expected, "output_name", "sentence_embedding")
    IN  IF output_name \notin DOMAIN out THEN
            ValidationResult(tn, FALSE, <<"Output '{}' not found", output_name>>, EmptyMap)
        ELSE normalized_check(tn, expected, first_row(out[output_name]))

\* C22 mutant: a zero norm gives the similarity 1
SimilarityAtLeast_zero_norm_one(dot, na2, nb2, min_similarity) ==
    IF na2 = 0 \/ nb2 = 0 THEN Scale >= min_similarity
    ELSE IF min_similarity >= 0 THEN
        dot >= 0 /\ dot * dot * Scale * Scale >= min_similarity * min_similarity * na2 * nb2
    ELSE
        dot >= 0 \/ dot * dot * Scale * Scale <= min_similarity * min_similarity * na2 * nb2

\* dot / (sqrt(na2) * sqrt(nb2)) if both norms > 0 else 0, compared >= min
SimilarityAtLeast(dot, na2, nb2, min_similarity) ==
    IF na2 = 0 \/ nb2 = 0 THEN 0 >= min_similarity
    ELSE IF min_similarity >= 0 THEN
        dot >= 0 /\ dot * dot * Scale * Scale >= min_similarity * min_similarity * na2 * nb2
    ELSE
        dot >= 0 \/ dot * dot * Scale * Scale <= min_similarity * min_similarity * na2 * nb2

\* the result of _validate_embedding_similarity once the sums are known
similarity_result(tn, dot, na2, nb2, min_similarity, dim) ==
    ValidationResult(tn, SimilarityAtLeast(dot, na2, nb2, min_similarity),
        <<"Cosine similarity: {}/sqrt({}*{}) (threshold: {})", dot, na2, nb2, min_similarity>>,
        [cosine_similarity |-> <<dot, na2, nb2>>, min_threshold |-> min_similarity,
         embedding_dim |-> dim])

\* _validate_embedding_similarity from "Compute cosine similarity"
similarity_check(tn, min_similarity, embedding, reference) ==
    IF ~IsList(embedding) THEN
        ValidationResult(tn, FALSE, <<"Embeddings must be lists of floats">>, EmptyMap)
    ELSE IF Len(embedding[2]) # Len(reference) THEN
        ValidationResult(tn, FALSE,
            <<"Embedding dimension mismatch: {} vs {}", Len(embedding[2]), Len(reference)>>,
            EmptyMap)
    ELSE IF ~AllNum(embedding[2]) THEN Raise("TypeError")
    ELSE similarity_result(tn, Dot(embedding[2], reference), SumSq(embedding[2]),
                           SumSq(reference), min_similarity, Len(embedding[2]))

\* "Flatten if needed": embedding[0][0] (the CLS token), embedding[0], or
\* the value itself; [[]] has no embedding[0][0]
flatten_embedding(raw) ==
    IF ~(NonEmptyList(raw) /\ IsList(raw[2][1])) THEN [val |-> raw]
    ELSE IF Len(raw[2][1][2]) = 0 THEN Raise("IndexError")
    ELSE IF IsList(raw[2][1][2][1]) THEN [val |-> raw[2][1][2][1]]
    ELSE [val |-> raw[2][1]]

\* the golden reference embedding as a list of JSON numbers
reference_of(expected) ==
    [i \in 1..Len(expected.reference_embedding) |-> Num(expected.reference_embedding[i])]

similarity_flat(tn, expected, flat) ==
    IF IsRaise(flat) THEN flat
    ELSE similarity_check(tn, Get(expected, "min_cosine_similarity", default_min_similarity),
                          flat.val, reference_of(expected))

validate_embedding_similarity(tn, expected, out) ==
    LET output_name == Get(expected, "output_name", "output")
    IN  IF "reference_embedding" \notin DOMAIN expected THEN
            ValidationResult(tn, FALSE, <<"No reference_embedding specified in test config">>,
                EmptyMap)
        ELSE IF output_name \notin DOMAIN out THEN
            ValidationResult(tn, FALSE, <<"Output '{}' not found in response", output_name>>,
                EmptyMap)
        ELSE similarity_flat(tn, expected, flatten_embedding(out[output_name]))

----------------------------------------------------------------------------
(* Dispatch and routing                                                    *)

\* expected.get('validation_type'): the kind as a str, or None
validation_type_of(expected) ==
    IF "validation_type" \in DOMAIN expected THEN Str(expected.validation_type) ELSE Null

\* the strategy call of a tensor-backed kind; vt is one of TensorKinds
strategy(vt, tn, expected, tensor_data) ==
    CASE vt = "output_shape" -> validate_output_shape(tn, expected, tensor_data)
      [] vt = "multi_output_shape" -> validate_multi_output_shape(tn, expected, tensor_data)
      [] vt = "top_k_contains" -> validate_top_k_contains(tn, expected, tensor_data)
      [] vt = "top_k_logits_check" -> validate_top_k_logits(tn, expected, tensor_data)
      [] vt = "generation_contains" -> validate_generation_contains(tn, expected, tensor_data)
      [] vt = "embedding_normalized" -> validate_embedding_normalized(tn, expected, tensor_data)
      [] vt = "embeddings_compatible" -> validate_embeddings_compatible(tn, expected, tensor_data)
      [] vt = "output_exists" -> validate_output_exists(tn, expected, tensor_data)
      [] vt = "top_k_class_match" -> validate_top_k_class_match(tn, expected, tensor_data)
      [] vt = "mlm_prediction" -> validate_mlm_prediction(tn, expected, tensor_data)
      [] vt = "embedding_similarity" -> validate_embedding_similarity(tn, expected, tensor_data)

\* kinds dispatched by _run_tensor_validation besides status_success
tensor_route_kinds ==
    {"output_shape", "multi_output_shape", "top_k_contains", "top_k_logits_check",
     "generation_contains", "embedding_normalized", "embeddings_compatible",
     "output_exists", "top_k_class_match", "mlm_prediction", "embedding_similarity"}

\* kinds dispatched by _run_single_validation besides status_success
raw_route_kinds ==
    {"output_shape", "multi_output_shape", "top_k_contains", "top_k_logits_check",
     "generation_contains", "embedding_normalized", "embeddings_compatible",
     "output_exists"}

\* the except clause of _run_tensor_validation
tensor_except(tn, kind, inference_time, tensor_data) ==
    ValidationResult(tn, FALSE, <<"Tensor validation error: {}", kind>>,
        [exception |-> kind, inference_time_us |-> inference_time,
         available_keys |-> DOMAIN tensor_data])

\* result.details[...] = ... after a strategy returned, in _run_tensor_validation
attach_metadata(vt, result, inference_time, model_id) ==
    IF IsRaise(result) THEN result
    ELSE IF vt = "output_shape" THEN
        SetDetail(SetDetail(SetDetail(result,
            "inference_time_us", inference_time),
            "model_id", model_id),
            "validation_source", "tensor_data")
    ELSE
        SetDetail(SetDetail(result,
            "inference_time_us", inference_time),
            "validation_source", IF vt = "status_success" THEN "core_response"
                                 ELSE "tensor_data")

\* the try block of _run_tensor_validation
tensor_attempt(tn, expected, tensor_data, full_response, vt, inference_time, model_id) ==
    IF IsStr(vt) /\ vt[2] \in tensor_route_kinds THEN
        attach_metadata(vt[2], strategy(vt[2], tn, expected, tensor_data),
                        inference_time, model_id)
    ELSE IF vt = Str("status_success") THEN
        attach_metadata("status_success", validate_status_success(tn, expected, full_response),
                        inference_time, model_id)
    ELSE
        ValidationResult(tn, FALSE, <<"Unknown validation type: {}", vt>>,
            [inference_time_us |-> inference_time])

\* C9 mutant: _run_tensor_validation without its except clause
tensor_catch_propagating(tn, attempt, inference_time, tensor_data) == attempt

\* try/except of _run_tensor_validation around an attempt
tensor_catch(tn, attempt, inference_time, tensor_data) ==
    IF IsRaise(attempt)
    THEN tensor_except(tn, attempt.exception, inference_time, tensor_data)
    ELSE attempt

run_tensor_validation(tn, expected, tensor_data, full_response) ==
    tensor_catch(tn,
        tensor_attempt(tn, expected, tensor_data, full_response,
                       validation_type_of(expected),
                       Get(full_response, "inference_time_us", Num(0)),
                       Get(full_response, "model_id", Str("unknown"))),
        Get(full_response, "inference_time_us", Num(0)), tensor_data)

\* the except clause of _run_single_validation
single_except(tn, kind) ==
    ValidationResult(tn, FALSE, <<"Validation error: {}", kind>>, [exception |-> kind])

\* C28 mutant: a kind the raw dispatch does not know passes
raw_attempt_unknown_passes(tn, expected, out, vt) ==
    IF IsStr(vt) /\ vt[2] \in raw_route_kinds THEN strategy(vt[2], tn, expected, out)
    ELSE IF vt = Str("status_success") THEN validate_status_success(tn, expected, out)
    ELSE ValidationResult(tn, TRUE, <<"Unknown validation type: {}", vt>>, EmptyMap)

\* the try block of _run_single_validation
raw_attempt(tn, expected, out, vt) ==
    IF IsStr(vt) /\ vt[2] \in raw_route_kinds THEN strategy(vt[2], tn, expected, out)
    ELSE IF vt = Str("status_success") THEN validate_status_success(tn, expected, out)
    ELSE ValidationResult(tn, FALSE, <<"Unknown validation type: {}", vt>>, EmptyMap)

\* try/except of _run_single_validation around an attempt
single_catch(tn, attempt) ==
    IF IsRaise(attempt) THEN single_except(tn, attempt.exception) ELSE attempt

\* the raw-tensor route of _run_single_validation
run_raw_validation(tn, expected, out) ==
    single_catch(tn, raw_attempt(tn, expected, out, validation_type_of(expected)))

\* which of the three routes _run_single_validation takes for a dict
route_of(out) ==
    IF is_core_response(out) /\ has_tensor_outputs(out) THEN "tensor"
    ELSE IF is_core_response(out) THEN "core"
    ELSE "raw"

\* _run_single_validation on a dict response with key map out
route_dict(tn, expected, out) ==
    IF route_of(out) = "tensor"
    THEN run_tensor_validation(tn, expected, extract_tensor_data(out), out)
    ELSE IF route_of(out) = "core" THEN validate_core_response(tn, expected, out)
    ELSE run_raw_validation(tn, expected, out)

\* a ValidationResult, or the Raise of an exception that leaves the call;
\* response is any JSON value (output.keys() needs a dict)
run_single_validation(test, response) ==
    IF ~IsDict(response) THEN Raise("AttributeError")
    ELSE route_dict(Get(test, "name", "unnamed_test"), Get(test, "expected", EmptyMap),
                    response[2])

\* C29 mutant: the loop skips no test case
skipped_never(test, filter) == FALSE

\* `test_name and test.get('name') != test_name`: the test case is skipped
skipped(test, filter) == IsStr(filter) /\ filter[2] # "" /\ test.name # filter[2]

\* results.append(result), then the rest of the loop; an exception ends it
append_result(result, rest) ==
    IF IsRaise(result) THEN result
    ELSE IF IsRaise(rest) THEN rest
    ELSE [results |-> <<result>> \o rest.results]

\* the loop of validate over test_cases[i..]: the results list, or the
\* Raise of the first exception that leaves _run_single_validation
RECURSIVE run_tests(_, _, _, _)
run_tests(test_cases, i, response, filter) ==
    IF i > Len(test_cases) THEN [results |-> <<>>]
    ELSE IF skipped(test_cases[i], filter)
    THEN run_tests(test_cases, i + 1, response, filter)
    ELSE append_result(run_single_validation(test_cases[i], response),
                       run_tests(test_cases, i + 1, response, filter))

\* C7 mutant: validate without the `if not test_cases` check
validate_without_test_cases_check(golden, name, response, filter) ==
    IF name \notin DOMAIN golden.models THEN
        [results |-> <<ValidationResult("model_lookup", FALSE,
            <<"Model '{}' not found in golden test data", name>>, EmptyMap)>>]
    ELSE run_tests(golden.models[name].test_cases, 1, response, filter)

\* InferenceValidator.validate
validate(golden, name, response, filter) ==
    IF name \notin DOMAIN golden.models THEN
        [results |-> <<ValidationResult("model_lookup", FALSE,
            <<"Model '{}' not found in golden test data", name>>, EmptyMap)>>]
    ELSE IF Len(golden.models[name].test_cases) = 0 THEN
        [results |-> <<ValidationResult("test_cases_lookup", FALSE,
            <<"No test cases defined for model '{}'", name>>, EmptyMap)>>]
    ELSE run_tests(golden.models[name].test_cases, 1, response, filter)

----------------------------------------------------------------------------
(* Golden spec: models -> {description, test_cases}, each test case         *)
(* {name, input, expected}.  Every model entry carries its description, so  *)
(* `not model_data` holds exactly for a name that is not a key of models.   *)

MaxLen == 2

MaxScore == 1

MaxOutputSize == 1

TestCase(name, expected) == [name |-> name, input |-> "doc", expected |-> expected]

Paris == <<"P", "a", "r", "i", "s">>

\* the generated text of the specification's scenario D
ScenarioText ==
    <<"T", "h", "e", " ", "c", "a", "p", "i", "t", "a", "l", " ", "o", "f", " ",
      "F", "r", "a", "n", "c", "e", " ", "i", "s", " ", "P", "a", "r", "i", "s", ".">>

GoldenData ==
    [models |->
      [vision |->
        [description |-> "image classifier",
         test_cases |-> <<
           TestCase("t1", [validation_type |-> "output_shape", output_name |-> "logits",
                           expected_shape |-> <<1, 2>>]),
           TestCase("t2", [validation_type |-> "top_k_class_match", output_name |-> "logits",
                           top_k |-> 1, expected_class_index |-> 1,
                           alternative_classes |-> <<2>>]),
           TestCase("t3", [validation_type |-> "top_k_contains", output_name |-> "logits",
                           top_k |-> 1, expected_class_indices |-> <<0>>]),
           TestCase("t4", [validation_type |-> "output_exists", output_name |-> "logits",
                           min_elements |-> 2]),
           TestCase("t5", [validation_type |-> "top_k_class_match", output_name |-> "logits"]),
           TestCase("t6", [validation_type |-> "top_k_class_match", top_k |-> 3,
                           expected_class_index |-> 1]),
           TestCase("t7", [validation_type |-> "top_k_class_match", top_k |-> 2,
                           expected_class_index |-> 2, alternative_classes |-> <<4, 3>>]),
           TestCase("t8", [validation_type |-> "output_exists"]),
           TestCase("t9", [validation_type |-> "output_exists", output_name |-> "logits",
                           min_elements |-> 1])
         >>],
       nlp |->
        [description |-> "language model",
         test_cases |-> <<
           TestCase("t1", [validation_type |-> "mlm_prediction", output_name |-> "logits",
                           mask_position |-> 1, expected_token_ids |-> <<1>>, top_k |-> 1]),
           TestCase("t2", [validation_type |-> "top_k_logits_check", output_name |-> "logits",
                           position |-> 1, expected_tokens |-> <<0>>, top_k |-> 1]),
           TestCase("t3", [validation_type |-> "top_k_contains", output_name |-> "logits",
                           mask_position |-> 1, expected_class_indices |-> <<1>>, top_k |-> 1]),
           TestCase("t4", [validation_type |-> "generation_contains",
                           expected_keywords |-> <<Paris>>]),
           TestCase("t5", [validation_type |-> "top_k_contains", output_name |-> "logits"]),
           TestCase("t6", [validation_type |-> "mlm_prediction", output_name |-> "logits"]),
           TestCase("t7", [validation_type |-> "mlm_prediction", output_name |-> "logits",
                           mask_position |-> 0, expected_token_ids |-> <<2, 1>>]),
           TestCase("t8", [validation_type |-> "top_k_logits_check",
                           expected_tokens |-> <<1>>, top_k |-> 1]),
           TestCase("t9", [validation_type |-> "top_k_logits_check", position |-> 0,
                           expected_tokens |-> <<2, 1>>]),
           TestCase("t10", [validation_type |-> "generation_contains",
                            expected_keywords |-> <<<<"i", "s">>, <<"R", "o", "m", "e">>, Paris>>,
                            case_insensitive |-> FALSE])
         >>],
       embed |->
        [description |-> "embedding model",
         test_cases |-> <<
           TestCase("t1", [validation_type |-> "embedding_normalized", output_name |-> "logits",
                           expected_l2_norm |-> 1, tolerance |-> 0]),
           TestCase("t2", [validation_type |-> "embedding_similarity", output_name |-> "logits",
                           reference_embedding |-> <<1, 0>>]),
           TestCase("t3", [validation_type |-> "embeddings_compatible",
                           text_output |-> "logits", image_output |-> "output"]),
           TestCase("t4", [validation_type |-> "multi_output_shape",
                           outputs |-> [logits |-> [expected_shape |-> <<1, 2>>],
                                        output |-> [expected_shape |-> <<2>>]]]),
           TestCase("t5", [validation_type |-> "embedding_similarity", output_name |-> "logits"]),
           TestCase("t6", [validation_type |-> "embedding_normalized"]),
           TestCase("t7", [validation_type |-> "embedding_similarity", output_name |-> "logits",
                           reference_embedding |-> <<0, 1>>, min_cosine_similarity |-> 0])
         >>],
       service |->
        [description |-> "status checks",
         test_cases |-> <<
           TestCase("t1", [validation_type |-> "status_success", min_output_size |-> 1]),
           TestCase("t2", [validation_type |-> "status_success"]),
           TestCase("t3", [validation_type |-> "bogus_kind"]),
           TestCase("t4", [note |-> "no validation_type"])
         >>],
       empty |->
        [description |-> "no test cases", test_cases |-> <<>>]]]

ModelNames == {"vision", "nlp", "embed", "service", "empty", "ghost"}

\* the optional test_name: None, "", a test name, a name of no test
Filters == {Null, Str(""), Str("t2"), Str("zz")}

----------------------------------------------------------------------------
(* Responses                                                               *)

Vectors == UNION {[1..n -> 0..MaxScore] : n \in 0..MaxLen}

NumList(v) == List([i \in 1..Len(v) |-> Num(v[i])])

Reverse(v) == [i \in 1..Len(v) |-> v[Len(v) + 1 - i]]

\* [vocab], [1, vocab], [1, 1, vocab], [1, 2, vocab], [2, vocab]
TensorsOf(v) ==
    {NumList(v),
     List(<<NumList(v)>>),
     List(<<List(<<NumList(v)>>)>>),
     List(<<List(<<NumList(v), NumList(Reverse(v))>>)>>),
     List(<<NumList(v), NumList(Reverse(v))>>)}

\* a scalar, null, lists holding a null, an empty row, jagged nesting
OddTensors ==
    {Num(1), Null, List(<<Null>>), List(<<Num(1), Null>>), List(<<List(<<>>)>>),
     List(<<List(<<Num(1), Null>>)>>), List(<<NumList(<<1, 0>>), Num(1)>>),
     List(<<List(<<NumList(<<0, 1>>), Num(1)>>)>>)}

Tensors == (UNION {TensorsOf(v) : v \in Vectors}) \cup OddTensors

TextValues ==
    {Text(Paris \o <<" ", "i", "s">>), Text(lower(Paris)), Text(<<"R", "o", "m", "e">>),
     List(<<Text(Paris)>>), List(<<>>), Null, Num(7), Text(ScenarioText),
     Text(<<"P", "A", "R", "I", "S">>)}

\* the scores 0.1, 0.9, 0.05, 0.3, 0.2 of the specification's scenario B,
\* in hundredths
ScenarioScores == NumList(<<10, 90, 5, 30, 20>>)

\* the unit vector [0.6, 0.8] of the specification, the same vector scaled
\* by 2, and the unit vector nested one level, in hundredths
UnitVector == NumList(<<60, 80>>)

NamedEmbeddings == {UnitVector, NumList(<<120, 160>>), List(<<UnitVector>>)}

TensorMaps ==
    {EmptyMap, "output" :> ScenarioScores}
    \cup {"sentence_embedding" :> e : e \in NamedEmbeddings}
    \cup {"logits" :> t : t \in Tensors}
    \cup {("logits" :> List(<<NumList(v)>>)) @@ ("output" :> NumList(v)) : v \in Vectors}
    \cup {("logits" :> NumList(v)) @@ ("output" :> NumList(Reverse(v))) : v \in Vectors}
    \cup {"generated_text" :> x : x \in TextValues}
    \cup {("text" :> Text(Paris)) @@ ("content" :> Text(<<"R", "o", "m", "e">>)),
          ("output" :> Text(<<"p", "a", "r", "i", "s">>)),
          ("logits" :> NumList(<<1, 0>>)) @@ ("outputs" :> Dict("output" :> NumList(<<1>>)))}

Absent == <<"absent">>

StatusChoices == {Absent, Str("success"), Str("error")}

SizeChoices == {Absent, Str("big")} \cup {Num(n) : n \in 0..MaxOutputSize}

TimeChoices == {Absent, Num(250), Str("fast")}

ModelIdChoices == {Absent, Str("m1")}

Field(k, choice) == IF choice = Absent THEN EmptyMap ELSE k :> choice

Metas ==
    {Field("status", st) @@ Field("output_size", sz) @@ Field("inference_time_us", ti)
       @@ Field("model_id", mi) :
       st \in StatusChoices, sz \in SizeChoices, ti \in TimeChoices, mi \in ModelIdChoices}

SampleMap == "logits" :> List(<<NumList(<<0, 1>>)>>)

FullMeta == ("status" :> Str("success")) @@ ("output_size" :> Num(1))
            @@ ("inference_time_us" :> Num(250)) @@ ("model_id" :> Str("m1"))

\* every metadata envelope, alone, around a tensor map, around an `outputs`
\* that is no mapping, or next to top-level tensors
MetaResponses ==
    {Dict(m @@ body) : m \in Metas,
       body \in {EmptyMap, "outputs" :> Dict(SampleMap), "outputs" :> List(<<Num(1)>>),
                 SampleMap}}

\* every tensor map: bare, as the `outputs` of a bare mapping, and as the
\* `outputs` of a full metadata envelope
TensorResponses ==
    {Dict(t) : t \in TensorMaps}
    \cup {Dict("outputs" :> Dict(t)) : t \in TensorMaps}
    \cup {Dict(FullMeta @@ ("outputs" :> Dict(t))) : t \in TensorMaps}

\* what run_inference of discover-output-names.py returns: a transport
\* error, or the JSON object Core answered with
DiscoverResponses ==
    {"error" :> Str("HTTP 500")}
    \cup {r[2] : r \in MetaResponses}
    \cup {FullMeta @@ ("outputs" :> Dict(t)) : t \in TensorMaps}

NonMappings == {Null, Num(1), Str("text"), List(<<Num(1), Num(0)>>)}

Responses == MetaResponses \cup TensorResponses \cup NonMappings

----------------------------------------------------------------------------
(* The state machine: one validate() call after another on one validator   *)

Init ==
    /\ golden_data = GoldenData
    /\ pc = "idle"
    /\ model_name = "ghost"
    /\ output = Null
    /\ test_name = Null
    /\ results = <<>>
    /\ raised = "none"
    /\ discovered = Null
    /\ args_json = FALSE
    /\ stdout_summary = "none"
    /\ exit_status = -1
    /\ history_file = [exists |-> FALSE, data |-> EmptyMap]
    /\ history_op = "none"

\* the call frame after validate() has returned r or raised
Deliver(name, response, filter, r) ==
    /\ model_name' = name
    /\ output' = response
    /\ test_name' = filter
    /\ pc' = IF IsRaise(r) THEN "raised" ELSE "returned"
    /\ results' = IF IsRaise(r) THEN <<>> ELSE r.results
    /\ raised' = IF IsRaise(r) THEN r.exception ELSE "none"

\* main: output = json.load(f), or json.loads(args.response)
LoadOutput(response) ==
    /\ pc = "idle"
    /\ pc' = "loaded"
    /\ output' = response
    /\ UNCHANGED <<golden_data, model_name, test_name, results, raised, discovered>>
    /\ UNCHANGED cli_vars
    /\ UNCHANGED hist_vars

\* C26 mutant: the details of a result are the `expected` mapping of its
\* test case
details_object_expected(r) == "expected"

\* the object the statements result.details[...] = ... of
\* _run_tensor_validation write into: ValidationResult keeps `details or {}`
\* and every strategy passes a mapping it has built itself, so the object
\* is one the call created, neither `expected` nor the tensor data
details_object(r) == "result"

\* the keys _run_tensor_validation has written into the details of r
written_keys(r) ==
    IF "validation_source" \in DOMAIN r.details
    THEN {k \in {"inference_time_us", "model_id", "validation_source"} :
             k \in DOMAIN r.details}
    ELSE {}

\* a mapping after the writes that made r, were it the object written
after_writes(object, r) == [k \in written_keys(r) |-> r.details[k]] @@ object

\* the test cases after the call that returned rs: n results are still to
\* be matched with the test cases from the i-th on
RECURSIVE tests_after(_, _, _, _, _)
tests_after(test_cases, i, filter, rs, n) ==
    IF i > Len(test_cases) THEN <<>>
    ELSE IF skipped(test_cases[i], filter) \/ n > Len(rs)
    THEN <<test_cases[i]>> \o tests_after(test_cases, i + 1, filter, rs, n)
    ELSE <<IF details_object(rs[n]) = "expected"
           THEN [test_cases[i] EXCEPT
                    !.expected = after_writes(test_cases[i].expected, rs[n])]
           ELSE test_cases[i]>>
         \o tests_after(test_cases, i + 1, filter, rs, n + 1)

\* self.golden_data after validate(name, response, filter) has run to r
golden_after(golden, name, filter, r) ==
    IF IsRaise(r) \/ name \notin DOMAIN golden.models THEN golden
    ELSE IF Len(golden.models[name].test_cases) = 0 THEN golden
    ELSE [golden EXCEPT !.models[name].test_cases =
              tests_after(golden.models[name].test_cases, 1, filter, r.results, 1)]

\* the tensor data of the response after the writes that made the results
RECURSIVE data_after(_, _, _)
data_after(tensor_data, rs, n) ==
    IF n > Len(rs) THEN tensor_data
    ELSE data_after(IF details_object(rs[n]) = "tensor_data"
                    THEN after_writes(tensor_data, rs[n]) ELSE tensor_data,
                    rs, n + 1)

\* the response after validate(name, response, filter) has run to r
response_after(response, r) ==
    IF IsRaise(r) \/ ~IsDict(response) THEN response
    ELSE IF route_of(response[2]) # "tensor" THEN response
    ELSE Dict([response[2] EXCEPT
                 !["outputs"] = Dict(data_after(response[2]["outputs"][2], r.results, 1))])

\* the state after validate(name, output, filter) has run to r
Returned(name, filter, r) ==
    /\ Deliver(name, response_after(output, r), filter, r)
    /\ golden_data' = golden_after(golden_data, name, filter, r)

\* results = validator.validate(model_name, output, test_name)
Validate(name, filter) ==
    /\ pc = "loaded"
    /\ Returned(name, filter, validate(golden_data, name, output, filter))
    /\ UNCHANGED discovered
    /\ UNCHANGED cli_vars
    /\ UNCHANGED hist_vars

\* the frame after discover_model_outputs has returned r or raised
Extracted(response, r) ==
    /\ output' = Dict(response)
    /\ pc' = IF IsRaise(r) THEN "discover_raised" ELSE "discovered"
    /\ discovered' = IF IsRaise(r) THEN Null ELSE r
    /\ raised' = IF IsRaise(r) THEN r.exception ELSE "none"

\* result = discover_model_outputs(...) of discover-output-names.py
Discover(response) ==
    /\ pc = "idle"
    /\ Extracted(response, discover_model_outputs(response))
    /\ UNCHANGED <<golden_data, model_name, test_name, results>>
    /\ UNCHANGED cli_vars
    /\ UNCHANGED hist_vars

\* main, "Output results": with --json the results are printed and main
\* returns; without it each result is printed, then the closing line, and
\* sys.exit(1) is called when a result has not passed
OutputResults(json) ==
    /\ pc = "returned"
    /\ pc' = "exited"
    /\ args_json' = json
    /\ stdout_summary' = IF json THEN "json"
                         ELSE IF \A i \in 1..Len(results) : results[i].passed
                              THEN "All validations passed!"
                              ELSE "Some validations failed"
    /\ exit_status' = IF ~json /\ (\E i \in 1..Len(results) : ~results[i].passed)
                       THEN 1 ELSE 0
    /\ UNCHANGED <<golden_data, model_name, output, test_name, results, raised, discovered>>
    /\ UNCHANGED hist_vars

\* main when validate() raised: nothing catches the exception, the
\* interpreter prints the traceback and exits with status 1
Uncaught ==
    /\ pc = "raised"
    /\ pc' = "exited"
    /\ stdout_summary' = "none"
    /\ exit_status' = 1
    /\ UNCHANGED <<golden_data, model_name, output, test_name, results, raised, discovered,
                   args_json>>
    /\ UNCHANGED hist_vars

\* the process is over (or the discovery result is taken); the scripts are
\* ready for the next run
Finish ==
    /\ pc \in {"exited", "discovered", "discover_raised"}
    /\ pc' = "idle"
    /\ model_name' = "ghost"
    /\ output' = Null
    /\ test_name' = Null
    /\ results' = <<>>
    /\ raised' = "none"
    /\ discovered' = Null
    /\ args_json' = FALSE
    /\ stdout_summary' = "none"
    /\ exit_status' = -1
    /\ UNCHANGED golden_data
    /\ UNCHANGED hist_vars

Next ==
    \/ \E response \in Responses : LoadOutput(response)
    \/ \E name \in ModelNames, filter \in Filters : Validate(name, filter)
    \/ \E response \in DiscoverResponses : Discover(response)
    \/ \E json \in BOOLEAN : OutputResults(json)
    \/ Uncaught
    \/ Finish

Spec == Init /\ [][Next]_vars

----------------------------------------------------------------------------
(* historical-metrics.py: the commands `add` and `reset` run one after     *)
(* another on one history file.  Metrics files are as generate-metrics.py  *)
(* writes them; datetime.utcnow() is read once per command.                *)

MaxRuns == 3

\* datetime.utcnow().isoformat() + 'Z'
Times == {"T1", "T2"}

\* the metrics file of a run: missing, a run without kernel comparison, a
\* run with it
MetricsFiles ==
    {EmptyMap,
     [generated_at |-> "G1", total_models |-> 2, successful_models |-> 1,
      success_rate |-> 50,
      models |-> [resnet |-> [tested |-> TRUE, inference_time_ms |-> 5, status |-> "success"],
                  gpt2 |-> [tested |-> FALSE, status |-> "skipped"]]],
     [total_models |-> 1, successful_models |-> 1, success_rate |-> 100,
      versions |-> [core |-> "v1"],
      models |-> [bert |-> [tested |-> TRUE, install_time_ms |-> 7, register_time_ms |-> 2,
                            inference_time_ms |-> 3, status |-> "success"]],
      kernel_comparison |-> [comparison_enabled |-> TRUE, average_speedup |-> 2,
                             models_tested |-> 1]]}

\* load_json: the content of the file, {} when the file does not exist
load_json(file) == IF file.exists THEN file.data ELSE EmptyMap

\* the per-model entry of a run
run_model(model_data) ==
    [install_time_ms |-> Get(model_data, "install_time_ms", 0),
     register_time_ms |-> Get(model_data, "register_time_ms", 0),
     inference_time_ms |-> Get(model_data, "inference_time_ms", 0),
     status |-> Get(model_data, "status", "unknown")]

\* the kernel comparison of a run, {} unless comparison_enabled
run_kernel_comparison(kc) ==
    IF Get(kc, "comparison_enabled", FALSE) THEN
        [kernel_mode |-> Get(kc, "kernel_mode", "scheduler"),
         average_speedup |-> Get(kc, "average_speedup", 0),
         models_tested |-> Get(kc, "models_tested", 0),
         speedup |-> Get(kc, "speedup", EmptyMap),
         kernel_results |-> Get(kc, "kernel_results", EmptyMap),
         userspace_results |-> Get(kc, "userspace_results", EmptyMap)]
    ELSE EmptyMap

extract_run_metrics(metrics, now) ==
    LET models == Get(metrics, "models", EmptyMap)
    IN  [timestamp |-> Get(metrics, "generated_at", now),
         versions |-> Get(metrics, "versions", EmptyMap),
         total_models |-> Get(metrics, "total_models", 0),
         successful_models |-> Get(metrics, "successful_models", 0),
         success_rate |-> Get(metrics, "success_rate", 0),
         models |-> [n \in {m \in DOMAIN models : Get(models[m], "tested", FALSE)} |->
                        run_model(models[n])],
         kernel_comparison |-> run_kernel_comparison(Get(metrics, "kernel_comparison", EmptyMap))]

\* history after "if 'runs' not in history"
with_runs(history, now) ==
    IF "runs" \in DOMAIN history THEN history
    ELSE ("runs" :> <<>>) @@ ("created_at" :> now) @@ history

\* C30 mutant: runs are numbered from 0
numbered_run_from_zero(runs, run_data) == ("run_number" :> Len(runs)) @@ run_data

\* run_data['run_number'] = len(history['runs']) + 1
numbered_run(runs, run_data) == ("run_number" :> Len(runs) + 1) @@ run_data

\* history after the append and the two assignments that follow it
appended(history, run_data, now) ==
    ("runs" :> Append(history.runs, run_data)) @@ ("updated_at" :> now)
    @@ ("total_runs" :> Len(history.runs) + 1) @@ history

\* the history add_run saves (and returns)
add_run(metrics, history, now) ==
    appended(with_runs(history, now),
             numbered_run(with_runs(history, now).runs, extract_run_metrics(metrics, now)),
             now)

\* the history reset_history saves (and returns)
reset_history(now) ==
    [runs |-> <<>>, created_at |-> now, updated_at |-> now, total_runs |-> 0, reset_at |-> now]

\* the runs a history file holds
stored_runs(file) == Get(load_json(file), "runs", <<>>)

\* historical-metrics.py add --metrics ... --history ...
AddRun(metrics, now) ==
    /\ Len(stored_runs(history_file)) < MaxRuns
    /\ history_file' = [exists |-> TRUE, data |-> add_run(metrics, load_json(history_file), now)]
    /\ history_op' = "add"
    /\ UNCHANGED <<validate_vars, cli_vars>>

\* historical-metrics.py reset --history ...
ResetHistory(now) ==
    /\ history_file' = [exists |-> TRUE, data |-> reset_history(now)]
    /\ history_op' = "reset"
    /\ UNCHANGED <<validate_vars, cli_vars>>

HistoryNext ==
    \/ \E metrics \in MetricsFiles, now \in Times : AddRun(metrics, now)
    \/ \E now \in Times : ResetHistory(now)

HistorySpec == Init /\ [][HistoryNext]_vars

----------------------------------------------------------------------------
(* Properties                                                              *)

\* a validate() call has ended, by returning or by raising
Called == pc \in {"returned", "raised"}

\* the test cases of the called model (none for a name that is no model)
CalledTests ==
    IF model_name \in DOMAIN golden_data.models
    THEN golden_data.models[model_name].test_cases ELSE <<>>

\* the test cases the loop of the call does not skip, in declared order
RunTests == SelectSeq(CalledTests, LAMBDA t : ~skipped(t, test_name))

\* the test cases the call is asked for: all of them without a test_name,
\* those carrying the name with one
AskedTests ==
    IF IsNull(test_name) THEN CalledTests
    ELSE SelectSeq(CalledTests, LAMBDA t : t.name = test_name[2])

\* the call ran test cases on a dict response
RanOnDict == Called /\ Len(CalledTests) > 0 /\ IsDict(output)

\* the i-th result is the result of the i-th test case the call ran
Aligned == pc = "returned" /\ Len(results) = Len(RunTests)

KindOf(test) == Get(test.expected, "validation_type", "none")

\* C1: for every model name, response (non-mappings and non-numeric
\* metadata included) and test-name filter, validate() returns a result
\* list: no exception leaves the call.
C1_NoExceptionEscapes == pc # "raised"

\* C2: a response whose `outputs` is a mapping is validated, metadata keys
\* or not, by the tensor-backed validation of the unwrapped `outputs` map:
\* every result has the verdict and message that validation gives.
C2_OutputsMappingUnwrapped ==
    (RanOnDict /\ has_tensor_outputs(output[2])) =>
        /\ Aligned
        /\ \A i \in 1..Len(RunTests) :
            LET r == run_tensor_validation(RunTests[i].name, RunTests[i].expected,
                                           output[2]["outputs"][2], output[2])
            IN  results[i].passed = r.passed /\ results[i].message = r.message

\* C3: for a metadata-only response (no `outputs` key) every result,
\* passing or failing, carries the reduced-validation note in its details.
C3_ReducedValidationNoted ==
    (RanOnDict /\ is_core_response(output[2]) /\ "outputs" \notin DOMAIN output[2]
       /\ pc = "returned") =>
        \A i \in 1..Len(results) : "validation_note" \in DOMAIN results[i].details

\* the pass condition of status_success on the metadata of a response
StatusSuccessHolds(expected, out) ==
    /\ Get(out, "status", Null) = Str("success")
    /\ Get(expected, "min_output_size", 0) > 0 =>
         /\ IsNum(Get(out, "output_size", Num(0)))
         /\ Get(out, "output_size", Num(0))[2] >= expected.min_output_size

\* C4: on every response that carries status metadata, metadata-only or
\* metadata+tensor, a status_success test case passes iff status is
\* "success" and, with min_output_size configured, output_size reaches it.
C4_StatusSuccessIff ==
    (RanOnDict /\ "status" \in DOMAIN output[2] /\ Aligned) =>
        \A i \in 1..Len(RunTests) :
            KindOf(RunTests[i]) = "status_success" =>
                (results[i].passed <=> StatusSuccessHolds(RunTests[i].expected, output[2]))

ScenarioE == Dict(("status" :> Str("success")) @@ ("output_size" :> Num(0)))

\* C5: Scenario E: status_success with min_output_size 1 on the
\* metadata-only response {status: "success", output_size: 0} fails with
\* the message `output_size 0 < min_output_size 1`.
C5_ScenarioE ==
    (pc = "returned" /\ model_name = "service" /\ output = ScenarioE /\ IsNull(test_name)) =>
        /\ results[1].passed = FALSE
        /\ results[1].message = <<"output_size {} < min_output_size {}", Num(0), 1>>

\* the same tensor map supplied as the `outputs` of a metadata+tensor response
Enveloped(t) == Dict(FullMeta @@ ("outputs" :> Dict(t)))

\* C6: for a raw-tensor response T and every tensor-backed kind, verdict
\* and message equal those obtained with T as the `outputs` of a
\* metadata+tensor response.
C6_RawEqualsEnveloped ==
    (RanOnDict /\ route_of(output[2]) = "raw" /\ Aligned) =>
        \A i \in 1..Len(RunTests) :
            KindOf(RunTests[i]) \in tensor_route_kinds =>
                LET r == run_single_validation(RunTests[i], Enveloped(output[2]))
                IN  results[i].passed = r.passed /\ results[i].message = r.message

\* C7: a model name absent from the golden spec yields exactly one failed
\* result named "model_lookup", a model with zero test cases exactly one
\* failed result named "test_cases_lookup"; nothing is raised and no
\* strategy runs, whatever the response.
C7_LookupPseudoResults ==
    (Called /\ Len(CalledTests) = 0) =>
        /\ pc = "returned"
        /\ Len(results) = 1
        /\ results[1].passed = FALSE
        /\ results[1].test_name = IF model_name \in DOMAIN golden_data.models
                                  THEN "test_cases_lookup" ELSE "model_lookup"

\* C7 witness: a model without test cases was called with a response that
\* is no mapping, and the call returned the lookup result.
C7_Witness ==
    /\ pc = "returned" /\ model_name = "empty" /\ ~IsDict(output)
    /\ results[1].test_name = "test_cases_lookup"

\* C8: the call returns one result per asked test case, in declared order,
\* the i-th result carrying the i-th asked test case's name, also when a
\* test case fails or errors.
C8_OneResultPerTestInOrder ==
    (Called /\ Len(CalledTests) > 0) =>
        /\ pc = "returned"
        /\ Len(results) = Len(AskedTests)
        /\ \A i \in 1..Len(AskedTests) : results[i].test_name = AskedTests[i].name

\* the outcome of the try block of the tensor-backed route taken for a test
AttemptOf(test) ==
    IF route_of(output[2]) = "tensor"
    THEN tensor_attempt(test.name, test.expected, output[2]["outputs"][2], output[2],
                        validation_type_of(test.expected),
                        Get(output[2], "inference_time_us", Num(0)),
                        Get(output[2], "model_id", Str("unknown")))
    ELSE raw_attempt(test.name, test.expected, output[2], validation_type_of(test.expected))

\* C9: on either tensor-backed route, an exception raised inside a
\* strategy becomes a failed result of that test case whose details carry
\* the exception's kind name; it is never a pass and never propagates.
C9_StrategyExceptionBecomesFailure ==
    (RanOnDict /\ route_of(output[2]) \in {"tensor", "raw"}) =>
        /\ Aligned
        /\ \A i \in 1..Len(RunTests) :
            IsRaise(AttemptOf(RunTests[i])) =>
                /\ results[i].test_name = RunTests[i].name
                /\ results[i].passed = FALSE
                /\ "exception" \in DOMAIN results[i].details
                /\ results[i].details["exception"] = AttemptOf(RunTests[i]).exception

\* C9 witness: on the metadata+tensor route a strategy ran out of range
\* while navigating a tensor, and the call returned that test case failed
\* with the kind IndexError in its details.
C9_Witness ==
    /\ RanOnDict /\ Aligned /\ route_of(output[2]) = "tensor"
    /\ \E i \in 1..Len(results) :
        /\ IsRaise(AttemptOf(RunTests[i]))
        /\ results[i].passed = FALSE
        /\ "exception" \in DOMAIN results[i].details
        /\ results[i].details["exception"] = "IndexError"

\* the kinds that look up one named output, with their default name
named_output_default ==
    [output_shape |-> "logits", top_k_contains |-> "logits", top_k_logits_check |-> "logits",
     top_k_class_match |-> "output", mlm_prediction |-> "output",
     embedding_normalized |-> "sentence_embedding", embedding_similarity |-> "output",
     output_exists |-> "output"]

\* the tensor map the strategies of the call are handed
TensorMapOf(out) == IF route_of(out) = "tensor" THEN out["outputs"][2] ELSE out

\* C10: for every kind that looks up a named output, a name absent from the
\* tensor map gives a failed result whose details list the output names
\* available in the map.
C10_AbsentOutputListsAvailable ==
    (RanOnDict /\ route_of(output[2]) = "tensor" /\ Aligned) =>
        \A i \in 1..Len(RunTests) :
            (/\ KindOf(RunTests[i]) \in DOMAIN named_output_default
             /\ Get(RunTests[i].expected, "output_name",
                    named_output_default[KindOf(RunTests[i])])
                  \notin DOMAIN TensorMapOf(output[2])) =>
                /\ results[i].passed = FALSE
                /\ \E k \in {"available_outputs", "available_keys"} :
                    /\ k \in DOMAIN results[i].details
                    /\ results[i].details[k] = DOMAIN TensorMapOf(output[2])

\* the response is a metadata envelope with a tensor map, and its metadata
\* names both the inference time and the model
CarriesBothIds(out) ==
    route_of(out) = "tensor" /\ {"inference_time_us", "model_id"} \subseteq DOMAIN out

\* C11: for a metadata+tensor response the result of every tensor-backed
\* kind has the response's inference_time_us and the response's model_id in
\* its details.
C11_MetadataAttached ==
    (RanOnDict /\ CarriesBothIds(output[2]) /\ Aligned) =>
        \A i \in 1..Len(RunTests) :
            KindOf(RunTests[i]) \in tensor_route_kinds =>
                /\ "inference_time_us" \in DOMAIN results[i].details
                /\ results[i].details["inference_time_us"] = output[2]["inference_time_us"]
                /\ "model_id" \in DOMAIN results[i].details
                /\ results[i].details["model_id"] = output[2]["model_id"]

\* status == "success" and output_size > 0 on the metadata of a response
CoreSucceeded(out) ==
    /\ Get(out, "status", Null) = Str("success")
    /\ IsNum(Get(out, "output_size", Num(0)))
    /\ Get(out, "output_size", Num(0))[2] > 0

\* C12: for a metadata-only response (a metadata key present, no `outputs`
\* mapping) every test case gets a result, and it passes iff status is
\* "success" and output_size > 0, whatever the validation_type and the other
\* expected parameters.
C12_CorePassIff ==
    (RanOnDict /\ route_of(output[2]) = "core") =>
        /\ Aligned
        /\ \A i \in 1..Len(RunTests) : results[i].passed <=> CoreSucceeded(output[2])

\* the i-th test case the call ran was decided by a strategy (either
\* tensor-backed route) and is of the given kind
StrategyRan(i, kind) ==
    /\ route_of(output[2]) \in {"tensor", "raw"}
    /\ KindOf(RunTests[i]) = kind
    /\ kind \in (IF route_of(output[2]) = "tensor" THEN tensor_route_kinds ELSE raw_route_kinds)

\* the output a test case names (by default `dflt`) in the tensor map
NamedOutput(test, dflt) == Get(test.expected, "output_name", dflt)

HasNamedOutput(test, dflt) == NamedOutput(test, dflt) \in DOMAIN TensorMapOf(output[2])

NamedData(test, dflt) == TensorMapOf(output[2])[NamedOutput(test, dflt)]

\* two lists are equal element for element, length included
SameList(a, b) == Len(a) = Len(b) /\ \A k \in 1..Len(a) : a[k] = b[k]

\* C13: an output_shape test case passes iff the shape of the named output
\* equals expected_shape element for element, in order and in length; its
\* result records actual_shape and expected_shape.
C13_OutputShapeIff ==
    (RanOnDict /\ Aligned) =>
        \A i \in 1..Len(RunTests) :
            (StrategyRan(i, "output_shape") /\ HasNamedOutput(RunTests[i], "logits")) =>
                LET shape == get_tensor_shape(NamedData(RunTests[i], "logits"))
                    want == RunTests[i].expected.expected_shape
                IN  /\ results[i].passed <=> SameList(shape, want)
                    /\ results[i].details["actual_shape"] = shape
                    /\ results[i].details["expected_shape"] = want

\* C13 witness: the named output has the shape [2, 1], a permutation of the
\* expected [1, 2], and the output_shape test case failed.
C13_Witness ==
    /\ RanOnDict /\ Aligned
    /\ \E i \in 1..Len(RunTests) :
        /\ StrategyRan(i, "output_shape") /\ HasNamedOutput(RunTests[i], "logits")
        /\ RunTests[i].expected.expected_shape = <<1, 2>>
        /\ results[i].details["actual_shape"] = <<2, 1>>
        /\ results[i].passed = FALSE

\* the value met after k descents into element 0 of v; no value once the
\* descent has met a non-sequence or an empty sequence
RECURSIVE Path0(_, _)
Path0(v, k) ==
    IF k = 0 THEN v
    ELSE IF NonEmptyList(v) THEN Path0(v[2][1], k - 1)
    ELSE <<"no value">>

\* s lists the lengths met on the index-0 path of v, down to the first
\* non-sequence value or to an empty sequence, whose 0 is the last entry
IsShapeOf(s, v) ==
    /\ \A k \in 1..Len(s) : IsList(Path0(v, k - 1)) /\ s[k] = Len(Path0(v, k - 1)[2])
    /\ ~IsList(Path0(v, Len(s)))

\* the inspector of validate-inference.py: the actual_shape recorded by
\* every output_shape test case that found its output is the shape
ValidatorShapes ==
    (RanOnDict /\ Aligned) =>
        \A i \in 1..Len(RunTests) :
            (StrategyRan(i, "output_shape") /\ HasNamedOutput(RunTests[i], "logits")) =>
                IsShapeOf(results[i].details["actual_shape"], NamedData(RunTests[i], "logits"))

\* the inspector of discover-output-names.py: the shape reported for every
\* output of the response is the shape
DiscoveredShapes ==
    pc = "discovered" =>
        \A name \in DOMAIN discovered.outputs :
            IsShapeOf(discovered.outputs[name].shape, output[2]["outputs"][2][name])

\* C14: the shape inspector (both copies of it) returns the lengths met by
\* taking the length of the current sequence and descending into element 0,
\* stopping at the first non-sequence or at an empty sequence: a scalar
\* gives the empty list, an empty sequence contributes a final 0, only the
\* index-0 path counts, irregular nesting raises nothing.
C14_ShapeInspector == ValidatorShapes /\ DiscoveredShapes

\* the flat score sequence the rankings of top_k_class_match and of
\* top_k_contains (no mask_position) work on: the named output itself, or
\* its only row when it is a batch of one
ScoreRow(data) ==
    IF IsList(data) /\ Len(data[2]) = 1 /\ IsList(data[2][1]) THEN data[2][1] ELSE data

IsFlatScores(x) == IsList(x) /\ AllNum(x[2])

\* the default output_name of the two ranking kinds
RankedDefault(test) == IF KindOf(test) = "top_k_class_match" THEN "output" ELSE "logits"

\* the i-th test case ranked a flat score sequence and recorded the top-K
Ranked(i) ==
    /\ \/ StrategyRan(i, "top_k_class_match")
       \/ StrategyRan(i, "top_k_contains") /\ "mask_position" \notin DOMAIN RunTests[i].expected
    /\ HasNamedOutput(RunTests[i], RankedDefault(RunTests[i]))
    /\ IsFlatScores(ScoreRow(NamedData(RunTests[i], RankedDefault(RunTests[i]))))
    /\ "top_k_indices" \in DOMAIN results[i].details

\* idx (0-based indices) is the top-K of the scores: min(K, n) pairwise
\* distinct indices, in descending score order with equal scores in
\* ascending index order, and every index left out ranks after all of them
IsTopK(idx, scores, k) ==
    LET n == Len(scores)
        score(j) == scores[j + 1][2]
        before(a, b) == score(a) > score(b) \/ (score(a) = score(b) /\ a < b)
    IN  /\ Len(idx) = Min(k, n)
        /\ \A p \in 1..Len(idx) : idx[p] \in 0..(n - 1)
        /\ \A p, q \in 1..Len(idx) : p < q => idx[p] # idx[q] /\ before(idx[p], idx[q])
        /\ \A j \in 0..(n - 1) :
            (\A p \in 1..Len(idx) : idx[p] # j) =>
                \A p \in 1..Len(idx) : score(j) <= score(idx[p]) /\ before(idx[p], j)

\* C15: the top-K ranking of a flat score sequence of length n gives the
\* first min(K, n) indices of the sequence sorted by score descending,
\* equal scores in ascending index order; the indices are pairwise distinct
\* and no index left out has a greater score than a returned one.
C15_TopKRanking ==
    (RanOnDict /\ Aligned) =>
        \A i \in 1..Len(RunTests) :
            Ranked(i) =>
                IsTopK(results[i].details["top_k_indices"],
                       ScoreRow(NamedData(RunTests[i], RankedDefault(RunTests[i])))[2],
                       Get(RunTests[i].expected, "top_k", 5))

\* C15 witness: two equal scores were ranked for the top-1 and index 0,
\* the earlier of the two, was returned.
C15_Witness ==
    /\ RanOnDict /\ Aligned
    /\ \E i \in 1..Len(RunTests) :
        /\ Ranked(i)
        /\ Get(RunTests[i].expected, "top_k", 5) = 1
        /\ ScoreRow(NamedData(RunTests[i], RankedDefault(RunTests[i])))[2] = <<Num(1), Num(1)>>
        /\ results[i].details["top_k_indices"] = <<0>>

\* the classification scores top_k_class_match ranks: the named output, or
\* its first batch row when it is nested
ClassRow(data) == IF NonEmptyList(data) /\ IsList(data[2][1]) THEN data[2][1] ELSE data

\* index a comes before index b in the descending, index-stable order
RanksBefore(scores, a, b) ==
    scores[a + 1][2] > scores[b + 1][2] \/ (scores[a + 1][2] = scores[b + 1][2] /\ a < b)

\* the 1-based rank of class c among the scores
RankAmong(scores, c) ==
    1 + Cardinality({j \in 0..(Len(scores) - 1) : RanksBefore(scores, j, c)})

\* class c is one of the top-K indices of the scores
InTopK(scores, c, k) == c \in 0..(Len(scores) - 1) /\ RankAmong(scores, c) <= k

\* [expected_class_index] + alternative_classes
Acceptable(expected) ==
    <<expected.expected_class_index>> \o Get(expected, "alternative_classes", <<>>)

\* the i-th test case is a top_k_class_match with its expected class
\* configured, decided by the strategy on numeric classification scores
ClassMatched(i) ==
    /\ StrategyRan(i, "top_k_class_match")
    /\ "expected_class_index" \in DOMAIN RunTests[i].expected
    /\ HasNamedOutput(RunTests[i], "output")
    /\ IsFlatScores(ClassRow(NamedData(RunTests[i], "output")))

\* what C16 says of one result, given the scores, the acceptable classes
\* and K
ClassMatchAsClaimed(result, scores, acceptable, k) ==
    LET hits == {n \in 1..Len(acceptable) : InTopK(scores, acceptable[n], k)}
        first == CHOOSE n \in hits : \A m \in hits : n <= m
    IN  /\ result.passed <=> hits # {}
        /\ hits # {} =>
            /\ result.details["found_class"] = Num(acceptable[first])
            /\ result.details["rank"] = Num(RankAmong(scores, acceptable[first]))
            /\ RankAmong(scores, acceptable[first]) \in 1..k
        /\ hits = {} =>
            /\ result.details["found_class"] = Null
            /\ result.details["rank"] = Null

\* C16: whenever the top_k_class_match strategy decides a test case, it
\* passes iff a class of [expected_class_index] + alternative_classes is
\* among the top-K indices of the classification scores (first batch row
\* when nested); on a pass found_class is the first such class in list
\* order and rank its 1-based position in the top-K (1 <= rank <= K), on a
\* failure both are null.  Scenario B (scores 0.1, 0.9, 0.05, 0.3, 0.2,
\* top_k 3, expected class 1) passes with rank 1.
C16_ClassMatch ==
    (RanOnDict /\ Aligned) =>
        \A i \in 1..Len(RunTests) :
            ClassMatched(i) =>
                /\ ClassMatchAsClaimed(results[i],
                       ClassRow(NamedData(RunTests[i], "output"))[2],
                       Acceptable(RunTests[i].expected),
                       Get(RunTests[i].expected, "top_k", 5))
                /\ (/\ NamedData(RunTests[i], "output") = ScenarioScores
                    /\ RunTests[i].expected.expected_class_index = 1
                    /\ Get(RunTests[i].expected, "top_k", 5) = 3) =>
                        results[i].passed /\ results[i].details["rank"] = Num(1)

\* C16 witness: on the scores of scenario B with top_k 2, expected class 2
\* and alternatives [4, 3], the test case passed on the alternative 3 at
\* rank 2 (class 4, earlier in the list, is not in the top-2).
C16_Witness ==
    /\ RanOnDict /\ Aligned
    /\ \E i \in 1..Len(RunTests) :
        /\ ClassMatched(i)
        /\ NamedData(RunTests[i], "output") = ScenarioScores
        /\ Acceptable(RunTests[i].expected) = <<2, 4, 3>>
        /\ results[i].passed
        /\ results[i].details["found_class"] = Num(3)
        /\ results[i].details["rank"] = Num(2)

\* the i-th test case is a top_k_contains decided by the strategy on a
\* tensor map that holds the named output
ContainsRan(i) == StrategyRan(i, "top_k_contains") /\ HasNamedOutput(RunTests[i], "logits")

ExpectedIndices(test) == Get(test.expected, "expected_class_indices", <<>>)

\* the strategy raised while deciding the result
Errored(result) == "exception" \in DOMAIN result.details

\* an element of wanted occurs in the list have
Intersects(wanted, have) ==
    \E n \in 1..Len(wanted) : \E p \in 1..Len(have) : have[p] = wanted[n]

\* scores that rank without an exception: a flat number list, or a batch of
\* one non-empty flat number list
Rankable(data) ==
    \/ IsFlatScores(data)
    \/ /\ IsList(data) /\ Len(data[2]) = 1
       /\ IsFlatScores(data[2][1]) /\ Len(data[2][1][2]) > 0

\* C17 as stated: a top_k_contains test case with expected_class_indices
\* passes iff one of them is among the top-K indices of the named output;
\* with no expected index configured it passes whenever the named output is
\* present, whatever the data.
C17_ContainsAsStated ==
    (RanOnDict /\ Aligned) =>
        \A i \in 1..Len(RunTests) :
            ContainsRan(i) =>
                IF ExpectedIndices(RunTests[i]) = <<>> THEN results[i].passed
                ELSE results[i].passed <=>
                        /\ "top_k_indices" \in DOMAIN results[i].details
                        /\ Intersects(ExpectedIndices(RunTests[i]),
                                      results[i].details["top_k_indices"])

\* C17 amended: with expected_class_indices the test case passes iff one of
\* them is among the top-K indices; with none configured it passes whenever
\* the named output is present and ranking its data raises no exception;
\* data whose navigation or sort raises (an empty first row, a null among
\* the scores) gives a failed result.  Flat numeric scores never raise and
\* are ranked as C15 says.
C17_ContainsUnlessRaised ==
    (RanOnDict /\ Aligned) =>
        \A i \in 1..Len(RunTests) :
            ContainsRan(i) =>
                LET want == ExpectedIndices(RunTests[i])
                    data == NamedData(RunTests[i], "logits")
                    k == Get(RunTests[i].expected, "top_k", 5)
                IN  /\ Errored(results[i]) => ~results[i].passed
                    /\ (~Errored(results[i]) /\ want = <<>>) => results[i].passed
                    /\ (~Errored(results[i]) /\ want # <<>>) =>
                        (results[i].passed <=>
                            Intersects(want, results[i].details["top_k_indices"]))
                    /\ (Rankable(data) /\ "mask_position" \notin DOMAIN RunTests[i].expected) =>
                        /\ ~Errored(results[i])
                        /\ want # <<>> =>
                            (results[i].passed <=>
                                \E n \in 1..Len(want) : InTopK(ScoreRow(data)[2], want[n], k))

\* C17 witness: a top_k_contains test case without expected indices found
\* its output, an empty first row, and failed on the IndexError of
\* logits[0][-1].
C17_Witness ==
    /\ RanOnDict /\ Aligned
    /\ \E i \in 1..Len(RunTests) :
        /\ ContainsRan(i)
        /\ ExpectedIndices(RunTests[i]) = <<>>
        /\ NamedData(RunTests[i], "logits") = List(<<List(<<>>)>>)
        /\ ~results[i].passed
        /\ Errored(results[i]) /\ results[i].details["exception"] = "IndexError"

\* data has the shape [batch, seq, vocab] as far as its first batch row
\* shows: a non-empty list whose first element is a non-empty list of lists
IsBatchSeqVocab(data) ==
    /\ NonEmptyList(data) /\ NonEmptyList(data[2][1])
    /\ \A p \in 1..Len(data[2][1][2]) : IsList(data[2][1][2][p])

\* the sequence length of batch 0
SeqLen(data) == Len(data[2][1][2])

\* the score vector at batch 0 and sequence position pos (0-based)
VectorAt(data, pos) == data[2][1][2][pos + 1]

\* the i-th test case is an mlm_prediction decided by the strategy
MlmRan(i) == StrategyRan(i, "mlm_prediction")

\* C18: whenever the mlm_prediction strategy decides a test case on an
\* output of shape [batch, seq, vocab] with 0 <= mask_position < seq, it
\* passes iff one of expected_token_ids is among the top-K (default 10)
\* token indices of the scores at batch 0, position mask_position; without
\* a mask_position the test case fails.
C18_MlmPrediction ==
    (RanOnDict /\ Aligned) =>
        \A i \in 1..Len(RunTests) :
            MlmRan(i) =>
                LET expected == RunTests[i].expected
                    tokens == Get(expected, "expected_token_ids", <<>>)
                    k == Get(expected, "top_k", 10)
                IN  IF "mask_position" \notin DOMAIN expected THEN ~results[i].passed
                    ELSE (/\ HasNamedOutput(RunTests[i], "output")
                          /\ IsBatchSeqVocab(NamedData(RunTests[i], "output"))
                          /\ expected.mask_position \in
                                0..(SeqLen(NamedData(RunTests[i], "output")) - 1)
                          /\ IsFlatScores(VectorAt(NamedData(RunTests[i], "output"),
                                                   expected.mask_position))) =>
                            (results[i].passed <=>
                                \E n \in 1..Len(tokens) :
                                    InTopK(VectorAt(NamedData(RunTests[i], "output"),
                                                    expected.mask_position)[2],
                                           tokens[n], k))

\* the default K = 10 case of mlm_prediction: a test case without top_k
\* passed on a token outside the first position of the ranking
MlmDefaultKReached ==
    /\ RanOnDict /\ Aligned
    /\ \E i \in 1..Len(RunTests) :
        /\ MlmRan(i) /\ "top_k" \notin DOMAIN RunTests[i].expected
        /\ "mask_position" \in DOMAIN RunTests[i].expected
        /\ HasNamedOutput(RunTests[i], "output")
        /\ NamedData(RunTests[i], "output") =
              List(<<List(<<NumList(<<1, 0>>), NumList(<<0, 1>>)>>)>>)
        /\ results[i].passed

\* C18 witness: on an output of shape [1, 2, 2] whose two positions rank
\* differently, the test case with mask_position 1 and top_k 1 passed on
\* token 1, the top token of position 1 only, and the test case without
\* top_k passed under the default K.
C18_Witness ==
    /\ RanOnDict /\ Aligned /\ MlmDefaultKReached
    /\ \E i \in 1..Len(RunTests) :
        /\ MlmRan(i) /\ HasNamedOutput(RunTests[i], "output")
        /\ Get(RunTests[i].expected, "mask_position", 0) = 1
        /\ NamedData(RunTests[i], "output") =
              List(<<List(<<NumList(<<1, 0>>), NumList(<<0, 1>>)>>)>>)
        /\ results[i].passed

\* the i-th test case is a top_k_logits_check decided by the strategy
LogitsCheckRan(i) == StrategyRan(i, "top_k_logits_check")

\* the 0-based sequence position a configured position stands for: -1 is
\* the last one
PositionMeant(data, position) ==
    IF position = -1 THEN SeqLen(data) - 1 ELSE position

\* the top_k_logits_check test case i ran on test data of shape
\* [batch, seq, vocab] with numeric scores and a position of -1 or more
LogitsCheckCase(i) ==
    /\ LogitsCheckRan(i) /\ HasNamedOutput(RunTests[i], "logits")
    /\ IsBatchSeqVocab(NamedData(RunTests[i], "logits"))
    /\ \A p \in 1..SeqLen(NamedData(RunTests[i], "logits")) :
            IsFlatScores(NamedData(RunTests[i], "logits")[2][1][2][p])
    /\ Get(RunTests[i].expected, "position", -1) >= -1

\* C19: whenever the top_k_logits_check strategy decides a test case on an
\* output of shape [batch, seq, vocab], it passes iff the configured
\* position (-1, the default, meaning the last one) is a sequence position
\* of batch 0 and one of expected_tokens is among the top-K (default 10)
\* token indices of the scores there.
C19_TopKLogits ==
    (RanOnDict /\ Aligned) =>
        \A i \in 1..Len(RunTests) :
            LogitsCheckCase(i) =>
                LET expected == RunTests[i].expected
                    data == NamedData(RunTests[i], "logits")
                    tokens == Get(expected, "expected_tokens", <<>>)
                    k == Get(expected, "top_k", 10)
                    pos == PositionMeant(data, Get(expected, "position", -1))
                IN  results[i].passed <=>
                        /\ pos \in 0..(SeqLen(data) - 1)
                        /\ \E n \in 1..Len(tokens) :
                                InTopK(VectorAt(data, pos)[2], tokens[n], k)

\* the test case i ran on the [1, 2, 2] output whose two positions rank
\* differently
OnTwoPositions(i) ==
    /\ LogitsCheckCase(i)
    /\ NamedData(RunTests[i], "logits") =
          List(<<List(<<NumList(<<1, 0>>), NumList(<<0, 1>>)>>)>>)

\* C19 witness: on the [1, 2, 2] output the test case without a position
\* passed with top_k 1 on token 1, the top token of the last position only,
\* and the test case without top_k passed under the default K.
C19_Witness ==
    /\ RanOnDict /\ Aligned
    /\ \E i \in 1..Len(RunTests) :
        /\ OnTwoPositions(i) /\ results[i].passed
        /\ "position" \notin DOMAIN RunTests[i].expected
        /\ Get(RunTests[i].expected, "top_k", 10) = 1
    /\ \E i \in 1..Len(RunTests) :
        /\ OnTwoPositions(i) /\ results[i].passed
        /\ "top_k" \notin DOMAIN RunTests[i].expected

\* the i-th test case is a generation_contains decided by the strategy
GenerationRan(i) == StrategyRan(i, "generation_contains")

\* the text keys in the order of preference the specification gives
PreferredKeys == <<"generated_text", "text", "output", "response", "content">>

PresentKeys(map) == {k \in 1..Len(PreferredKeys) : PreferredKeys[k] \in DOMAIN map}

\* the value under the first preferred key the map has
FirstPreferred(map) ==
    map[PreferredKeys[CHOOSE k \in PresentKeys(map) : \A j \in PresentKeys(map) : k <= j]]

\* two characters are the same letter, whatever their case
SameLetter(a, b) ==
    a = b \/ \E k \in 1..Len(Upper) : {a, b} = {Upper[k], LowerOf[k]}

\* keyword occurs in text, letters compared without case when fold holds
OccursIn(keyword, text, fold) ==
    \E offset \in 0..(Len(text) - Len(keyword)) :
        \A j \in 1..Len(keyword) :
            IF fold THEN SameLetter(keyword[j], text[offset + j])
            ELSE keyword[j] = text[offset + j]

\* found lists the keywords at the positions in hits, in increasing position
ListsInOrder(found, keywords, hits) ==
    /\ Len(found) = Cardinality(hits)
    /\ \A n \in hits : found[Cardinality({m \in hits : m <= n})] = keywords[n]

\* C20: whenever the generation_contains strategy decides a test case, it
\* fails when the map has none of generated_text, text, output, response,
\* content; when the first of them present holds a text, it passes iff one
\* of expected_keywords is a substring of that text (without regard to case
\* unless case_insensitive is false), and found_keywords lists exactly the
\* matching keywords in configured order.
C20_GenerationContains ==
    (RanOnDict /\ Aligned) =>
        \A i \in 1..Len(RunTests) :
            GenerationRan(i) =>
                LET map == TensorMapOf(output[2])
                    keywords == Get(RunTests[i].expected, "expected_keywords", <<>>)
                    fold == Get(RunTests[i].expected, "case_insensitive", TRUE)
                IN  IF PresentKeys(map) = {} THEN ~results[i].passed
                    ELSE IsStr(FirstPreferred(map)) =>
                        LET hits == {n \in 1..Len(keywords) :
                                        OccursIn(keywords[n], FirstPreferred(map)[2], fold)}
                        IN  /\ results[i].passed <=> hits # {}
                            /\ ListsInOrder(results[i].details["found_keywords"],
                                            keywords, hits)

\* C20 witness: scenario D. On the text "The capital of France is Paris."
\* the test case with the keyword "Paris" passed with found_keywords
\* ["Paris"], and the case-sensitive test case with the keywords "is",
\* "Rome", "Paris" found "is" and "Paris", in that order.
C20_Witness ==
    /\ RanOnDict /\ Aligned
    /\ PresentKeys(TensorMapOf(output[2])) # {}
    /\ FirstPreferred(TensorMapOf(output[2])) = Text(ScenarioText)
    /\ \E i \in 1..Len(RunTests) :
        /\ GenerationRan(i) /\ results[i].passed
        /\ RunTests[i].expected.expected_keywords = <<Paris>>
        /\ results[i].details["found_keywords"] = <<Paris>>
    /\ \E i \in 1..Len(RunTests) :
        /\ GenerationRan(i) /\ results[i].passed
        /\ Get(RunTests[i].expected, "case_insensitive", TRUE) = FALSE
        /\ results[i].details["found_keywords"] = <<<<"i", "s">>, Paris>>

\* the i-th test case is an embedding_normalized decided by the strategy on
\* a named output that is present
NormalizedRan(i) ==
    StrategyRan(i, "embedding_normalized") /\ HasNamedOutput(RunTests[i], "sentence_embedding")

\* the embedding of a named output: its first row when nested one level
EmbeddingOf(data) ==
    IF NonEmptyList(data) /\ IsList(data[2][1]) THEN data[2][1] ELSE data

\* the sum of the squares of the numbers in a sequence
SquaresSum(items) ==
    LET RECURSIVE upto(_)
        upto(n) == IF n = 0 THEN 0 ELSE upto(n - 1) + items[n][2] * items[n][2]
    IN  upto(Len(items))

\* the integer part of the square root of s
RootFloor(s) == CHOOSE r \in 0..s : r * r <= s /\ (r + 1) * (r + 1) > s

\* abs(sqrt(s) - norm) <= tolerance, decided on the integer part of the root
RootWithin(s, norm, tolerance) ==
    /\ \/ RootFloor(s) < norm + tolerance
       \/ RootFloor(s) = norm + tolerance /\ RootFloor(s) * RootFloor(s) = s
    /\ RootFloor(s) >= norm - tolerance

\* C21: whenever the embedding_normalized strategy decides a test case on a
\* named embedding of numbers (its first row when nested one level), it
\* passes iff the L2 norm differs from expected_l2_norm (default 1.0) by at
\* most tolerance (default 0.01); with the defaults [0.6, 0.8] passes and
\* [1.2, 1.6] fails.
C21_EmbeddingNormalized ==
    (RanOnDict /\ Aligned) =>
        \A i \in 1..Len(RunTests) :
            LET embedding == EmbeddingOf(NamedData(RunTests[i], "sentence_embedding"))
                expected == RunTests[i].expected
            IN  (/\ NormalizedRan(i) /\ IsList(embedding)
                 /\ \A n \in 1..Len(embedding[2]) : IsNum(embedding[2][n])) =>
                    /\ results[i].passed <=>
                            RootWithin(SquaresSum(embedding[2]),
                                       Get(expected, "expected_l2_norm", 100),
                                       Get(expected, "tolerance", 1))
                    /\ (DOMAIN expected = {"validation_type"} /\ embedding = NumList(<<60, 80>>))
                            => results[i].passed
                    /\ (DOMAIN expected = {"validation_type"} /\ embedding = NumList(<<120, 160>>))
                            => ~results[i].passed

\* C21 witness: a test case with the default norm and tolerance passed on
\* the unit vector [0.6, 0.8] nested one level.
C21_Witness ==
    /\ RanOnDict /\ Aligned
    /\ \E i \in 1..Len(RunTests) :
        /\ NormalizedRan(i) /\ results[i].passed
        /\ DOMAIN RunTests[i].expected = {"validation_type"}
        /\ NamedData(RunTests[i], "sentence_embedding") = List(<<NumList(<<60, 80>>)>>)

\* the i-th test case is an embedding_similarity with a reference, decided
\* by the strategy on a named output that is present
SimilarityRan(i) ==
    /\ StrategyRan(i, "embedding_similarity")
    /\ "reference_embedding" \in DOMAIN RunTests[i].expected
    /\ HasNamedOutput(RunTests[i], "output")

\* the vector compared with the reference: the named output itself, its
\* first row, or the first vector of its first row
ComparedVector(data) ==
    IF NonEmptyList(data) /\ NonEmptyList(data[2][1]) THEN
        (IF IsList(data[2][1][2][1]) THEN data[2][1][2][1] ELSE data[2][1])
    ELSE data

\* the least r with r * r >= s
RootCeil(s) == CHOOSE r \in 0..s : r * r >= s /\ (r = 0 \/ (r - 1) * (r - 1) < s)

\* the cosine of two vectors of numbers is at least m hundredths (m >= 0),
\* the cosine being 0 when either norm is 0
CosineAtLeast(a, b, m) ==
    LET dot == Dot(a, b)
    IN  IF SquaresSum(a) = 0 \/ SquaresSum(b) = 0 THEN m = 0
        ELSE dot * 100 >= RootCeil(m * m * SquaresSum(a) * SquaresSum(b))

\* C22: whenever the embedding_similarity strategy compares a vector of
\* numbers with reference_embedding, a difference in length gives a failed
\* dimension-mismatch result that records no exception; otherwise the test
\* case passes iff the cosine similarity, taken as 0 when either norm is 0,
\* is at least min_cosine_similarity (default 0.7).
C22_EmbeddingSimilarity ==
    (RanOnDict /\ Aligned) =>
        \A i \in 1..Len(RunTests) :
            LET vector == ComparedVector(NamedData(RunTests[i], "output"))
                reference == RunTests[i].expected.reference_embedding
                threshold == Get(RunTests[i].expected, "min_cosine_similarity", 70)
            IN  (SimilarityRan(i) /\ IsFlatScores(vector) /\ threshold >= 0) =>
                    IF Len(vector[2]) # Len(reference) THEN
                        /\ ~results[i].passed
                        /\ results[i].message =
                              <<"Embedding dimension mismatch: {} vs {}",
                                Len(vector[2]), Len(reference)>>
                        /\ "exception" \notin DOMAIN results[i].details
                    ELSE results[i].passed <=>
                            CosineAtLeast(vector[2], [n \in 1..Len(reference) |-> Num(reference[n])],
                                          threshold)

\* C22 witness: on the embedding [[1, 1]] the test case with the reference
\* [1, 0] and the default threshold passed (cosine 0.707...).
C22_Witness ==
    /\ RanOnDict /\ Aligned
    /\ \E i \in 1..Len(RunTests) :
        /\ SimilarityRan(i) /\ results[i].passed
        /\ "min_cosine_similarity" \notin DOMAIN RunTests[i].expected
        /\ NamedData(RunTests[i], "output") = List(<<NumList(<<1, 1>>)>>)

\* the i-th test case is a multi_output_shape decided by the strategy
MultiShapeRan(i) == StrategyRan(i, "multi_output_shape")

\* the outputs a multi_output_shape test case configures
ConfiguredOutputs(test) == Get(test.expected, "outputs", EmptyMap)

\* the configured output `name` is in the tensor map with the expected shape
OutputConforms(test, name) ==
    /\ name \in DOMAIN TensorMapOf(output[2])
    /\ IsShapeOf(ConfiguredOutputs(test)[name].expected_shape, TensorMapOf(output[2])[name])

\* C23: whenever the multi_output_shape strategy decides a test case, it
\* passes iff every configured output is in the tensor map with its
\* expected_shape, and the details report every configured output: a
\* missing one as not found, a present one with its actual shape and
\* whether it matched, whatever became of the others.
C23_MultiOutputShape ==
    (RanOnDict /\ Aligned) =>
        \A i \in 1..Len(RunTests) :
            MultiShapeRan(i) =>
                /\ results[i].passed <=>
                        \A name \in DOMAIN ConfiguredOutputs(RunTests[i]) :
                            OutputConforms(RunTests[i], name)
                /\ \A name \in DOMAIN ConfiguredOutputs(RunTests[i]) :
                        /\ name \in DOMAIN results[i].details
                        /\ IF name \notin DOMAIN TensorMapOf(output[2])
                           THEN /\ DOMAIN results[i].details[name] = {"error"}
                                /\ results[i].details[name].error = "not found"
                           ELSE /\ "error" \notin DOMAIN results[i].details[name]
                                /\ IsShapeOf(results[i].details[name].actual,
                                             TensorMapOf(output[2])[name])
                                /\ results[i].details[name].passed <=>
                                        OutputConforms(RunTests[i], name)

\* C23 witness: of the two configured outputs, `logits` has the shape [2]
\* instead of [1, 2] and `output` matches; the test case failed and the
\* details report `output` as matching.
C23_Witness ==
    /\ RanOnDict /\ Aligned
    /\ \E i \in 1..Len(RunTests) :
        /\ MultiShapeRan(i) /\ ~results[i].passed
        /\ DOMAIN ConfiguredOutputs(RunTests[i]) = {"logits", "output"}
        /\ DOMAIN TensorMapOf(output[2]) = {"logits", "output"}
        /\ results[i].details["logits"].actual = <<2>>
        /\ ~results[i].details["logits"].passed
        /\ results[i].details["output"].passed

\* the i-th test case is an output_exists decided by the strategy
ExistsRan(i) == StrategyRan(i, "output_exists")

\* the tensor map of the response: its `outputs` when that is a mapping,
\* the response itself otherwise
ResponseTensorMap ==
    IF "outputs" \in DOMAIN output[2] /\ IsDict(output[2]["outputs"])
    THEN output[2]["outputs"][2] ELSE output[2]

\* every entry of the tensor map is a tensor or a scalar, none a mapping
HoldsTensors(map) == \A name \in DOMAIN map : ~IsDict(map[name])

\* the outer length of a value: 1 for a value that is no sequence
OuterLength(value) == IF IsList(value) THEN Len(value[2]) ELSE 1

\* C24: whenever the output_exists strategy decides a test case on a tensor
\* map of tensors, it passes iff the named output (default `output`) is in
\* the map and, when min_elements is configured above 0, the outer length
\* of the output (1 for a value that is no sequence) is at least
\* min_elements.
C24_OutputExists ==
    (RanOnDict /\ Aligned) =>
        \A i \in 1..Len(RunTests) :
            (ExistsRan(i) /\ HoldsTensors(ResponseTensorMap)) =>
                LET name == Get(RunTests[i].expected, "output_name", "output")
                    least == Get(RunTests[i].expected, "min_elements", 0)
                IN  results[i].passed <=>
                        /\ name \in DOMAIN ResponseTensorMap
                        /\ least > 0 => OuterLength(ResponseTensorMap[name]) >= least

\* C24 witness: the named output is the scalar 1; the test case asking for
\* at least 1 element passed and the one asking for at least 2 failed.
C24_Witness ==
    /\ RanOnDict /\ Aligned /\ HoldsTensors(ResponseTensorMap)
    /\ "logits" \in DOMAIN ResponseTensorMap /\ ResponseTensorMap["logits"] = Num(1)
    /\ \E i \in 1..Len(RunTests) :
        /\ ExistsRan(i) /\ results[i].passed
        /\ Get(RunTests[i].expected, "min_elements", 0) = 1
    /\ \E i \in 1..Len(RunTests) :
        /\ ExistsRan(i) /\ ~results[i].passed
        /\ Get(RunTests[i].expected, "min_elements", 0) = 2

\* the run of the CLI is over and validate() had returned its results
Exited == pc = "exited" /\ raised = "none"

\* a result of the run has not passed
SomeFailed == \E i \in 1..Len(results) : ~results[i].passed

\* C25: once the CLI has exited, its exit status is failure iff at least
\* one result of the run has passed = false, with --json and without.
C25_ExitStatus == Exited => (exit_status # 0 <=> SomeFailed)

\* a step leaves the golden spec as it is, and a step that is a validate
\* call leaves the response as it is
FrameKept ==
    /\ golden_data' = golden_data
    /\ pc = "loaded" => output' = output

\* the results of a call that returned are those validate gives for its
\* arguments on the golden spec as loaded, whatever calls came before
SameAsFirstCall ==
    pc = "returned" =>
        results = validate(GoldenData, model_name, output, test_name).results

IsTwoLevel(data) ==
    /\ NonEmptyList(data)
    /\ \A p \in 1..Len(data[2]) : IsFlatScores(data[2][p]) /\ Len(data[2][p][2]) > 0

\* data is a [batch, seq, vocab] output whose batch 0 holds flat score lists
IsThreeLevel(data) ==
    /\ IsBatchSeqVocab(data)
    /\ \A p \in 1..SeqLen(data) : IsFlatScores(data[2][1][2][p])

\* the test case i is a masked-LM check decided by the strategy on a named
\* output that is present, and dflt is the default name of its output
MaskedCheck(i, dflt) ==
    /\ "mask_position" \in DOMAIN RunTests[i].expected
    /\ \/ dflt = "logits" /\ StrategyRan(i, "top_k_contains")
       \/ dflt = "output" /\ StrategyRan(i, "mlm_prediction")
    /\ HasNamedOutput(RunTests[i], dflt)

\* the scores at the last sequence position of the named output, when the
\* configured mask position is at or beyond the sequence length of a
\* [batch, seq, vocab] output (either check) or of a two-level output
\* (mlm_prediction); the empty list stands for "no such case"
LastPositionScores(i, dflt) ==
    LET data == NamedData(RunTests[i], dflt)
        mask == RunTests[i].expected.mask_position
    IN  IF IsThreeLevel(data) /\ mask >= SeqLen(data)
        THEN <<VectorAt(data, SeqLen(data) - 1)[2]>>
        ELSE IF dflt = "output" /\ IsTwoLevel(data) /\ mask >= Len(data[2])
        THEN <<data[2][Len(data[2])][2]>>
        ELSE <<>>

\* the token or class indices a masked-LM check expects, and its K
MaskedWanted(i, dflt) ==
    IF dflt = "logits" THEN ExpectedIndices(RunTests[i])
    ELSE Get(RunTests[i].expected, "expected_token_ids", <<>>)

MaskedK(i, dflt) == Get(RunTests[i].expected, "top_k", IF dflt = "logits" THEN 5 ELSE 10)

\* C27: whenever a masked-LM check (top_k_contains with mask_position,
\* mlm_prediction) is decided with a mask position at or beyond the length
\* of the sequence dimension, no exception is recorded and the verdict is
\* the one of the top-K at the last sequence position.
C27_DegradesToLast ==
    (RanOnDict /\ Aligned) =>
        \A i \in 1..Len(RunTests) : \A dflt \in {"logits", "output"} :
            (MaskedCheck(i, dflt) /\ LastPositionScores(i, dflt) # <<>>
             /\ MaskedWanted(i, dflt) # <<>>) =>
                /\ ~Errored(results[i])
                /\ results[i].passed <=>
                        \E n \in 1..Len(MaskedWanted(i, dflt)) :
                            InTopK(LastPositionScores(i, dflt)[1],
                                   MaskedWanted(i, dflt)[n], MaskedK(i, dflt))

\* the part of C27 the checks keep: top_k_contains on [batch, seq, vocab]
\* and mlm_prediction on two-level outputs
DegradesWhereGuarded ==
    (RanOnDict /\ Aligned) =>
        \A i \in 1..Len(RunTests) : \A dflt \in {"logits", "output"} :
            (/\ MaskedCheck(i, dflt) /\ LastPositionScores(i, dflt) # <<>>
             /\ MaskedWanted(i, dflt) # <<>>
             /\ ~(dflt = "output" /\ IsThreeLevel(NamedData(RunTests[i], dflt)))) =>
                /\ ~Errored(results[i])
                /\ results[i].passed <=>
                        \E n \in 1..Len(MaskedWanted(i, dflt)) :
                            InTopK(LastPositionScores(i, dflt)[1],
                                   MaskedWanted(i, dflt)[n], MaskedK(i, dflt))

\* the validation kinds of the dispatch table of the specification
DispatchKinds ==
    {"output_shape", "multi_output_shape", "top_k_contains", "top_k_logits_check",
     "top_k_class_match", "mlm_prediction", "generation_contains", "embedding_normalized",
     "embedding_similarity", "embeddings_compatible", "output_exists", "status_success"}

\* the validation_type of the test case is missing or outside the table
UnknownKind(test) == KindOf(test) \notin DispatchKinds

\* the result is failed and names the validation_type of the test case
NamesUnknownType(result, test) ==
    /\ ~result.passed
    /\ result.message = <<"Unknown validation type: {}", validation_type_of(test.expected)>>

NoTestMatches ==
    /\ Len(CalledTests) > 0
    /\ IsStr(test_name) /\ test_name[2] # ""
    /\ \A i \in 1..Len(CalledTests) : CalledTests[i].name # test_name[2]

StoredRuns == stored_runs(history_file)

\* the stored total_runs equals the number of stored runs, and the i-th
\* stored run has run_number i
RunsNumbered ==
    history_file.exists =>
        /\ history_file.data.total_runs = Len(StoredRuns)
        /\ \A i \in 1..Len(StoredRuns) : StoredRuns[i].run_number = i

\* a step of add_run appends exactly one run and leaves the earlier runs as
\* they were; a step of reset_history leaves no run
OneRunAppended ==
    /\ history_op' = "add" =>
            /\ Len(stored_runs(history_file')) = Len(StoredRuns) + 1
            /\ \A i \in 1..Len(StoredRuns) : stored_runs(history_file')[i] = StoredRuns[i]
    /\ history_op' = "reset" =>
            /\ stored_runs(history_file') = <<>>
            /\ history_file'.data.total_runs = 0

\* C30: after any sequence of add_run and reset_history on one history
\* file, total_runs is the number of stored runs and the i-th stored run
\* has run_number i; each add_run appends exactly one run and leaves the
\* earlier ones unchanged, and reset_history leaves zero runs.
C30_HistoryNumbered == []RunsNumbered /\ [][OneRunAppended]_vars

\* C30 witness: two runs were added after a reset that followed an earlier
\* add; the file holds the runs 1 and 2.
C30_Witness ==
    /\ history_op = "add" /\ history_file.exists
    /\ "reset_at" \in DOMAIN history_file.data
    /\ Len(StoredRuns) = 2
    /\ StoredRuns[1].run_number = 1 /\ StoredRuns[2].run_number = 2
    /\ StoredRuns[1].timestamp # StoredRuns[2].timestamp

====
